---- MODULE Spec2Model ----
(***************************************************************************)
(* Model of the resilience primitives of the Shiprocket -> Triple Whale    *)
(* integration (src/src/utils/retry.js), of the Triple Whale client's      *)
(* request path (src/src/api/triplewhale.js) and of the entry points that  *)
(* use them (src/src/webhooks/shiprocket-handler.js, the server file).     *)
(*                                                                         *)
(* The specifications of the module share its variables:                   *)
(*   SpecBreaker   one CircuitBreaker instance shared by concurrent        *)
(*                 callers of execute(), wrapped function arbitrary;       *)
(*   SpecRetry     one activation of retryRequest / retryWithConfig;       *)
(*   SpecServer    webhook deliveries and connection tests of the server   *)
(*                 against the Triple Whale dependency;                    *)
(*   SpecWebhook   the webhook route alone, over every request;            *)
(*   SpecHealth    the connection test (healthCheck) alone;                *)
(*   SpecClient    concurrent makeRequest calls of the OAuth client;       *)
(*   SpecBatch     one pushBatchMetrics call;                              *)
(*   SpecLimiter   one RateLimiter instance shared by concurrent callers   *)
(*                 of checkLimit();                                        *)
(*   SpecLib       one application of verifyWebhookSignature,              *)
(*                 determinePaymentStatus or authenticate, or two of a     *)
(*                 transformation, to every argument of a bounded set.     *)
(* FairSpecRetry and FairSpecWebhook add the fairness of the event loop;   *)
(* FairSpecBreaker is the breaker with callers that arrive one at a time,  *)
(* under the fairness of the clock, of the calls and of their arrival.     *)
(* Time is Date.now() in milliseconds; it advances in steps of TickMs.     *)
(***************************************************************************)
EXTENDS Integers, Sequences, FiniteSets, TLC

VARIABLES
    now,          \* Date.now()
    config,       \* the config module: retry, webhook, shiprocket
    cb,           \* the CircuitBreaker instance under test (its fields)
    pc,           \* per caller of cb.execute(): "idle" | "inFn"
    fnInvoked,    \* number of invocations of a wrapped function by cb.execute()
    nOk,          \* execute() calls that returned the wrapped result
    nErr,         \* execute() calls whose wrapped function threw
    nBlocked,     \* execute() calls rejected with 'Circuit breaker is OPEN'
    probe,        \* caller whose execute() moved cb OPEN -> HALF_OPEN and is in flight
    probeAlone,   \* no other wrapped call has been in flight during that probe
    runs,         \* cb's calls so far: [streak, longest, serial]: the current and
                  \* the longest run of consecutive failures; no two overlapped
    rq,           \* one activation of retryRequest: its locals and position
    tripleWhaleCircuitBreaker,  \* the server's breaker for Triple Whale
    wh,           \* per webhook request (POST /webhooks/shiprocket): position,
                  \* response and the retryRequest activation of its push
    hc,           \* per health request (GET /health), Triple Whale part
    tripleWhaleAPI,  \* the TripleWhaleAPI instance: OAuth settings and cached token
    calls,        \* per makeRequest call of that instance: position and counts
    batch,        \* one pushBatchMetrics call: its locals and position
    app,          \* one application of a function of the webhook handler:
                  \* [fn, args, pc, result]
    rateLimiter,  \* a RateLimiter instance and the callers of its checkLimit()
    last          \* the last step taken: [op, caller, probe]; probe: the call is the
                  \* one that moved the breaker OPEN -> HALF_OPEN

breakerVars == <<cb, pc, fnInvoked, nOk, nErr, nBlocked, probe, probeAlone, last, runs>>
clientVars == <<tripleWhaleAPI, calls>>
libVars == <<batch, app, rateLimiter>>
serverVars == <<tripleWhaleCircuitBreaker, wh, hc, clientVars, libVars>>
vars == <<now, config, breakerVars, rq, serverVars>>

(***************************************************************************)
(* Bounds of the model.                                                    *)
(***************************************************************************)
NumCallers == 2          \* concurrent callers of one breaker
MaxCalls == 5            \* execute() calls per behaviour
MaxThreshold == 3        \* largest failureThreshold option tried
MaxTicks == 5            \* clock steps per behaviour
TickMs == 15000          \* granularity of the clock

Callers == 1..NumCallers
Null == -1               \* JS null
NoCaller == Null

\* ToNumber(null) = 0, as in Date.now() - this.lastFailureTime
Num(x) == IF x = Null THEN 0 ELSE x

(***************************************************************************)
(* class CircuitBreaker                                                    *)
(***************************************************************************)
DefaultFailureThreshold == 5
DefaultResetTimeout == 60000

\* constructor(options); an option of 0 stands for an absent (falsy) option
CircuitBreaker(options) ==
    [ failureThreshold |-> IF options.failureThreshold = 0
                             THEN DefaultFailureThreshold
                             ELSE options.failureThreshold,
      resetTimeout     |-> IF options.resetTimeout = 0
                             THEN DefaultResetTimeout
                             ELSE options.resetTimeout,
      state            |-> "CLOSED",
      failureCount     |-> 0,
      lastFailureTime  |-> Null,
      successCount     |-> 0 ]

\* Date.now() - this.lastFailureTime > this.resetTimeout
ResetElapsedNever(b, t) == FALSE
ResetElapsedInclusive(b, t) == t - Num(b.lastFailureTime) >= b.resetTimeout
ResetElapsed(b, t) == t - Num(b.lastFailureTime) > b.resetTimeout

\* execute(): the call is rejected before the wrapped function is invoked
ExecuteBlocked(b, t) == b.state = "OPEN" /\ ~ResetElapsed(b, t)

\* execute(): the breaker as it is when the wrapped function is invoked
ExecuteEnter(b, t) ==
    IF b.state = "OPEN" /\ ResetElapsed(b, t)
      THEN [b EXCEPT !.state = "HALF_OPEN", !.failureCount = 0]
      ELSE b

onSuccessAlwaysClose(b) ==
    [b EXCEPT !.failureCount = 0, !.successCount = @ + 1, !.state = "CLOSED"]
onSuccessKeepCount(b) ==
    LET b1 == [b EXCEPT !.successCount = @ + 1]
    IN  IF b1.state = "HALF_OPEN" THEN [b1 EXCEPT !.state = "CLOSED"] ELSE b1
onSuccessNoClose(b) == [b EXCEPT !.failureCount = 0, !.successCount = @ + 1]
onSuccess(b) ==
    LET b1 == [b EXCEPT !.failureCount = 0, !.successCount = @ + 1]
    IN  IF b1.state = "HALF_OPEN" THEN [b1 EXCEPT !.state = "CLOSED"] ELSE b1

onFailureOffByOne(b, t) ==
    LET b1 == [b EXCEPT !.failureCount = @ + 1, !.lastFailureTime = t]
    IN  IF b1.failureCount > b1.failureThreshold
          THEN [b1 EXCEPT !.state = "OPEN"]
          ELSE b1
onFailure(b, t) ==
    LET b1 == [b EXCEPT !.failureCount = @ + 1, !.lastFailureTime = t]
    IN  IF b1.failureCount >= b1.failureThreshold
          THEN [b1 EXCEPT !.state = "OPEN"]
          ELSE b1

(***************************************************************************)
(* class RateLimiter.  The record holds the instance (maxRequests,         *)
(* windowMs, requests) and, for the callers of checkLimit(), where each    *)
(* one is (callers), every admission time so far (log) and the number of   *)
(* calls made (nCalls).                                                    *)
(***************************************************************************)
DefaultMaxRequests == 100
DefaultWindowMs == 60000
MaxLimiterRequests == 2  \* largest maxRequests option tried

\* constructor(options); an option of 0 stands for an absent (falsy) option
RateLimiter(options) ==
    [ maxRequests |-> IF options.maxRequests = 0 THEN DefaultMaxRequests
                                                 ELSE options.maxRequests,
      windowMs    |-> IF options.windowMs = 0 THEN DefaultWindowMs
                                              ELSE options.windowMs,
      requests    |-> <<>>,
      callers     |-> [c \in Callers |-> [pc |-> "idle", wakeAt |-> 0, naps |-> 0]],
      log         |-> <<>>,
      nCalls      |-> 0 ]
LimiterIdle == RateLimiter([maxRequests |-> 0, windowMs |-> 0])

\* checkLimit() entered by caller c at time t, up to its return or its sleep
checkLimitOffByOne(l, c, t) ==
    LET kept == SelectSeq(l.requests, LAMBDA time : t - time < l.windowMs)
    IN  IF Len(kept) > l.maxRequests
          THEN LET oldestRequest ==
                       CHOOSE x \in {kept[i] : i \in DOMAIN kept} :
                           \A i \in DOMAIN kept : x <= kept[i]
                   waitTime == l.windowMs - (t - oldestRequest)
               IN  [l EXCEPT !.requests = kept,
                             !.callers[c] = [pc |-> "sleeping", wakeAt |-> t + waitTime,
                                             naps |-> @.naps + 1]]
          ELSE [l EXCEPT !.requests = Append(kept, t),
                         !.log = Append(@, t),
                         !.callers[c].pc = "admitted"]
checkLimit(l, c, t) ==
    LET kept == SelectSeq(l.requests, LAMBDA time : t - time < l.windowMs)
    IN  IF Len(kept) >= l.maxRequests
          THEN LET oldestRequest ==
                       CHOOSE x \in {kept[i] : i \in DOMAIN kept} :
                           \A i \in DOMAIN kept : x <= kept[i]
                   waitTime == l.windowMs - (t - oldestRequest)
               IN  [l EXCEPT !.requests = kept,
                             !.callers[c] = [pc |-> "sleeping", wakeAt |-> t + waitTime,
                                             naps |-> @.naps + 1]]
          ELSE [l EXCEPT !.requests = Append(kept, t),
                         !.log = Append(@, t),
                         !.callers[c].pc = "admitted"]

(***************************************************************************)
(* config.retry (config module) and retryConfigs                           *)
(***************************************************************************)
DefaultMaxRetryAttempts == 3
RandomScale == 1000      \* Math.random() is drawn in thousandths
MaxEnvAttempts == 4      \* largest MAX_RETRY_ATTEMPTS tried
MaxAttemptsArg == 5      \* largest maxAttempts option tried

\* the config module, from process.env.  MAX_RETRY_ATTEMPTS = 0 stands for an
\* unset, unparsable or zero variable (parseInt(...) || 3);
\* WEBHOOK_VERIFY_SIGNATURE is TRUE when the variable is the string 'true'
Env == [ MAX_RETRY_ATTEMPTS : 0..MaxEnvAttempts, WEBHOOK_VERIFY_SIGNATURE : BOOLEAN ]
DefaultEnv == [ MAX_RETRY_ATTEMPTS |-> 0, WEBHOOK_VERIFY_SIGNATURE |-> FALSE ]
SHIPROCKET_WEBHOOK_SECRET == 1   \* the secret of the deployment
ConfigOf(env) ==
    [ retry   |-> [ maxAttempts |-> IF env.MAX_RETRY_ATTEMPTS = 0
                                      THEN DefaultMaxRetryAttempts
                                      ELSE env.MAX_RETRY_ATTEMPTS,
                    delayMs |-> 1000,                       \* RETRY_DELAY_MS unset
                    backoffFactor |-> [num |-> 2, den |-> 1] ], \* RETRY_BACKOFF_FACTOR unset
      webhook |-> [ verifySignature |-> env.WEBHOOK_VERIFY_SIGNATURE ],
      shiprocket |-> [ webhookSecret |-> SHIPROCKET_WEBHOOK_SECRET ] ]

Undefined == -2          \* an option that is not given

RetryConfigTypes == {"critical", "standard", "quick", "readOnly"}
\* backoff factors are kept as fractions: 1.5 is 3/2
retryConfigs ==
    [ critical |-> [maxAttempts |-> 5, delayMs |-> 2000,
                    backoffFactor |-> [num |-> 2, den |-> 1]],
      standard |-> [maxAttempts |-> config.retry.maxAttempts,
                    delayMs |-> config.retry.delayMs,
                    backoffFactor |-> config.retry.backoffFactor],
      quick    |-> [maxAttempts |-> 2, delayMs |-> 500,
                    backoffFactor |-> [num |-> 3, den |-> 2]],
      readOnly |-> [maxAttempts |-> 4, delayMs |-> 1000,
                    backoffFactor |-> [num |-> 3, den |-> 2]] ]

\* a destructured option with its default: { field = dflt } = options
Opt(options, field, dflt) ==
    IF field \in DOMAIN options THEN options[field] ELSE dflt

RECURSIVE Pow(_, _)
Pow(b, e) == IF e <= 0 THEN 1 ELSE b * Pow(b, e - 1)

\* Math.random(): a value in [0, 1), in thousandths
Randoms == {0, RandomScale \div 2, RandomScale - 1}

\* addJitter(delay): Math.floor(delay + Math.random() * 0.1 * delay), for the
\* delay num/den and Math.random() = random / RandomScale
addJitterFull(num, den, random) ==
    (num * (RandomScale + random)) \div (den * RandomScale)
addJitter(num, den, random) ==
    (num * (10 * RandomScale + random)) \div (den * 10 * RandomScale)

(***************************************************************************)
(* Errors thrown by a retried function.  status is error.response?.status  *)
(* (NoStatus when there is no response), code is error.code, id is the     *)
(* number of the invocation that threw it (the identity of the error).     *)
(***************************************************************************)
NoStatus == 0
Statuses == {400, 401, 404, 408, 429, 500, 503}
NetworkCodes == {"ECONNRESET", "ENOTFOUND", "ECONNREFUSED", "ETIMEDOUT"}
Codes == NetworkCodes \cup {"EPIPE", "none"}
ErrorKinds ==
    [status : Statuses, code : {"none"}] \cup [status : {NoStatus}, code : Codes]
NoError == [status |-> NoStatus, code |-> "none", id |-> 0]
Values == {"v1", "v2"}   \* results of a retried function
NoValue == "none"

MkError(k, n) == [status |-> k.status, code |-> k.code, id |-> n]

\* defaultShouldRetry(error, attempt)
defaultShouldRetry(error, attempt) ==
    IF attempt >= config.retry.maxAttempts
      THEN FALSE
      ELSE IF error.status >= 400 /\ error.status < 500
        THEN error.status \in {401, 408, 429}
        ELSE IF error.status >= 500
          THEN TRUE
          ELSE error.code \in NetworkCodes

(***************************************************************************)
(* retryRequest(fn, options): the activation record and its steps          *)
(***************************************************************************)
RetryIdle ==
    [ pc |-> "idle", maxAttempts |-> 0, attempt |-> 0, lastError |-> NoError,
      result |-> NoValue, thrown |-> NoError,
      nCalls |-> 0,        \* invocations of fn so far
      nSleeps |-> 0,       \* sleeps started so far
      delayMs |-> 0, backoffFactor |-> [num |-> 1, den |-> 1],
      sleeps |-> <<>>,     \* the jitteredDelay of every sleep started so far
      all500 |-> TRUE ]    \* every rejection of fn so far had status 500

\* while (attempt <= maxAttempts): fn() is invoked, or the loop is left and
\* lastError is thrown
LoopHead(r) ==
    IF r.attempt <= r.maxAttempts
      THEN [r EXCEPT !.pc = "awaitFn", !.nCalls = @ + 1]
      ELSE [r EXCEPT !.pc = "thrown", !.thrown = r.lastError]

\* entry: the options are destructured, attempt = 1, first pass of the loop
RetryEnterFromZero(options) ==
    LoopHead([ RetryIdle EXCEPT
                 !.maxAttempts = IF options.maxAttempts = Undefined
                                   THEN config.retry.maxAttempts
                                   ELSE options.maxAttempts,
                 !.delayMs = Opt(options, "delayMs", config.retry.delayMs),
                 !.backoffFactor = Opt(options, "backoffFactor", config.retry.backoffFactor),
                 !.attempt = 0 ])
RetryEnter(options) ==
    LoopHead([ RetryIdle EXCEPT
                 !.maxAttempts = IF options.maxAttempts = Undefined
                                   THEN config.retry.maxAttempts
                                   ELSE options.maxAttempts,
                 !.delayMs = Opt(options, "delayMs", config.retry.delayMs),
                 !.backoffFactor = Opt(options, "backoffFactor", config.retry.backoffFactor),
                 !.attempt = 1 ])

\* lastError = error
RecordErrorKeepFirst(r, e) ==
    IF r.lastError = NoError
      THEN [r EXCEPT !.lastError = e, !.all500 = @ /\ e.status = 500]
      ELSE [r EXCEPT !.all500 = @ /\ e.status = 500]
RecordError(r, e) == [r EXCEPT !.lastError = e, !.all500 = @ /\ e.status = 500]

\* the awaited fn() resolves with v
RetryOnResolve(r, v) == [r EXCEPT !.pc = "returned", !.result = v]

\* the awaited fn() rejects with e: the catch block up to the sleep
RetryOnReject(r, e) ==
    LET r1 == RecordError(r, e)
    IN  IF ~defaultShouldRetry(e, r1.attempt)
          THEN [r1 EXCEPT !.pc = "thrown", !.thrown = e]
          ELSE IF r1.attempt >= r1.maxAttempts
            THEN [r1 EXCEPT !.pc = "thrown", !.thrown = r1.lastError]
            ELSE [r1 EXCEPT !.pc = "sleeping", !.nSleeps = @ + 1]

\* delay = delayMs * Math.pow(backoffFactor, attempt - 1);
\* jitteredDelay = addJitter(delay); await sleep(jitteredDelay).
\* r is the record after RetryOnReject: the delay is drawn only on the path
\* that reaches the sleep
RetrySleeps(r, random) ==
    LET e == r.attempt - 1
        f == r.backoffFactor   \* Math.pow(f, e) = f.den^(-e) / f.num^(-e) for e < 0
    IN  IF r.pc = "sleeping"
          THEN [r EXCEPT !.sleeps = Append(@,
                  addJitter(r.delayMs * (IF e >= 0 THEN Pow(f.num, e) ELSE Pow(f.den, -e)),
                            IF e >= 0 THEN Pow(f.den, e) ELSE Pow(f.num, -e), random))]
          ELSE r

\* the sleep is over: attempt++, next pass of the loop
RetryOnWake(r) == LoopHead([r EXCEPT !.attempt = @ + 1])

RetryTerminal(r) == r.pc \in {"returned", "thrown"}

(***************************************************************************)
(* class TripleWhaleAPI with OAuth2 client credentials                     *)
(* (src/src/api/triplewhale.js).  The instance holds the cached token and  *)
(* its expiry; every makeRequest call is a retryRequest activation whose   *)
(* retried function sends one request through the axios instance and its  *)
(* two interceptors.  tokenOf / expiryOf record the token response each    *)
(* of the two fields was last written from.                                *)
(***************************************************************************)
NumClientCalls == 2      \* concurrent makeRequest calls
MaxClientTicks == 1      \* clock steps per behaviour of the client
MaxExpiresIn == 1        \* largest expires_in of a token response, in clock steps
MaxTokens == 3           \* token responses granted per behaviour

ClientCalls == 1..NumClientCalls
ExpiresIn == {n * (TickMs \div 1000) : n \in 1..MaxExpiresIn}   \* seconds
PlainError == [status |-> NoStatus, code |-> "none"]   \* new Error(message)

\* constructor
TripleWhaleAPI(clientId, clientSecret) ==
    [ clientId       |-> clientId,         \* config.tripleWhale.clientId is set
      clientSecret   |-> clientSecret,     \* config.tripleWhale.clientSecret is set
      accessToken    |-> Null,
      tokenExpiresAt |-> Null,
      granted        |-> 0,                \* token responses received so far
      tokenOf        |-> Null,
      expiryOf       |-> Null ]

Truthy(x) == x # Null /\ x # 0

\* ensureAuthenticated(): the condition under which it calls authenticate()
ensureAuthenticatedLate(a, t) ==
    a.clientId /\ (a.accessToken = Null
                    \/ (Truthy(a.tokenExpiresAt) /\ t > a.tokenExpiresAt))
ensureAuthenticated(a, t) ==
    a.clientId /\ (a.accessToken = Null
                    \/ (Truthy(a.tokenExpiresAt) /\ t >= a.tokenExpiresAt))

\* authenticate() returns at once, without a token request
authenticateSkipped(a) == ~a.clientId \/ ~a.clientSecret

\* authenticate(), after the token response: both fields are assigned with
\* no await in between
authenticateKeepExpiry(a, response, t) ==
    [a EXCEPT !.accessToken = response.access_token,
              !.tokenOf = response.access_token,
              !.tokenExpiresAt = IF Truthy(@) THEN @ ELSE t + response.expires_in * 1000,
              !.expiryOf = IF Truthy(a.tokenExpiresAt) THEN @ ELSE response.access_token,
              !.granted = @ + 1]
authenticate(a, response, t) ==
    [a EXCEPT !.accessToken = response.access_token,
              !.tokenOf = response.access_token,
              !.tokenExpiresAt = t + response.expires_in * 1000,
              !.expiryOf = response.access_token,
              !.granted = @ + 1]

\* TripleWhaleAPI.authenticate() from its call to its return or throw;
\* outcome is what POST /oauth/token did.  The fields are assigned after the
\* await, inside the try; the catch block assigns nothing and throws
tripleWhaleAuthenticateClears(a, outcome, t) ==
    IF authenticateSkipped(a)
      THEN [pc |-> "returned", instance |-> a]
      ELSE IF outcome.ok
        THEN [pc |-> "returned", instance |-> authenticate(a, outcome.response, t)]
        ELSE [pc |-> "raised",
              instance |-> [a EXCEPT !.accessToken = Null, !.tokenExpiresAt = Null]]
tripleWhaleAuthenticate(a, outcome, t) ==
    IF authenticateSkipped(a)
      THEN [pc |-> "returned", instance |-> a]
      ELSE IF outcome.ok
        THEN [pc |-> "returned", instance |-> authenticate(a, outcome.response, t)]
        ELSE [pc |-> "raised", instance |-> a]

\* ShiprocketAPI.authenticate(): POST /external/auth/login, token valid 24 hours
shiprocketAuthenticate(a, outcome, t) ==
    IF outcome.ok
      THEN [pc |-> "returned",
            instance |-> [a EXCEPT !.token = outcome.response.access_token,
                                   !.tokenExpiresAt = t + 24 * 60 * 60 * 1000]]
      ELSE [pc |-> "raised", instance |-> a]

\* one makeRequest call
ClientCallIdle ==
    [ stage          |-> "idle",    \* "authenticating" | "sending" | "refreshing"
      retry          |-> RetryIdle,
      retried        |-> FALSE,     \* config._retry of the current attempt
      nTokenRequests |-> 0,         \* POST /oauth/token issued by this call
      nReauth        |-> 0,         \* refreshToken() calls of the 401 handler
      nReplays       |-> 0,         \* this.client(config) calls of the 401 handler
      nRequests      |-> 0,         \* requests dispatched to the dependency
      all401         |-> TRUE,      \* every response so far had status 401
      authFailed     |-> FALSE ]    \* a token request of this call failed

ClientIdle ==
    /\ tripleWhaleAPI = TripleWhaleAPI(FALSE, FALSE)
    /\ calls = [c \in ClientCalls |-> ClientCallIdle]

\* the request leaves for the dependency
Dispatch(k) == [k EXCEPT !.stage = "sending", !.nRequests = @ + 1]

\* request interceptor: await this.ensureAuthenticated(), then the header
RequestInterceptor(a, k, t) ==
    IF ensureAuthenticated(a, t) /\ ~authenticateSkipped(a)
      THEN [k EXCEPT !.stage = "authenticating", !.nTokenRequests = @ + 1]
      ELSE Dispatch(k)

\* the retried function of makeRequest: a new config object, this.client(config)
InvokeFn(a, k, t) == RequestInterceptor(a, [k EXCEPT !.retried = FALSE], t)

\* the retried function settles: retryRequest goes on
FnResolved(k, v) == [k EXCEPT !.stage = "idle", !.retry = RetryOnResolve(@, v)]
FnRejected(k, e) == [k EXCEPT !.stage = "idle", !.retry = RetryOnReject(@, e)]

\* TripleWhaleAPI.makeRequest: retryRequest(fn) with no options
makeRequest == RetryEnter([maxAttempts |-> Undefined])

\* makeRequest(method, endpoint, data, options) up to its first request
ClientMakeRequest(a, t) ==
    LET k == [ClientCallIdle EXCEPT !.retry = makeRequest]
    IN  IF k.retry.pc = "awaitFn" THEN InvokeFn(a, k, t) ELSE k

\* return this.client(config) of the 401 handler
Replay(a, k, t) == RequestInterceptor(a, [k EXCEPT !.nReplays = @ + 1], t)

\* response interceptor, error handler
ResponseError(a, k, e, t) ==
    LET k0 == [k EXCEPT !.all401 = @ /\ e.status = 401]
    IN  IF e.status = 401 /\ a.clientId /\ ~k0.retried
          THEN LET k1 == [k0 EXCEPT !.retried = TRUE, !.nReauth = @ + 1]
               IN  IF authenticateSkipped(a)
                     THEN Replay(a, k1, t)
                     ELSE [k1 EXCEPT !.stage = "refreshing",
                                     !.nTokenRequests = @ + 1]
          ELSE FnRejected(k0, e)

\* the token request of authenticate() is answered: the awaiting interceptor
\* or 401 handler goes on
TokenGranted(a, k, t) ==
    IF k.stage = "authenticating" THEN Dispatch(k) ELSE Replay(a, k, t)

\* the token request fails: authenticate() throws 'OAuth authentication failed'
TokenRefused(k) ==
    FnRejected([k EXCEPT !.authFailed = TRUE], MkError(PlainError, k.retry.nCalls))

\* after the sleep of retryRequest: the next attempt
ClientWake(a, k, t) ==
    LET k1 == [k EXCEPT !.retry = RetryOnWake(@)]
    IN  IF k1.retry.pc = "awaitFn" THEN InvokeFn(a, k1, t) ELSE k1

(***************************************************************************)
(* TripleWhaleAPI.pushBatchMetrics and chunkArray.  The records of a batch *)
(* are numbered 1..n; each chunk is pushed by pushCustomMetrics, that is   *)
(* by one retryRequest activation of makeRequest.                          *)
(***************************************************************************)
BatchChunkSize == 100    \* this.chunkArray(batchData, 100)
MaxBatch == 201          \* largest batch tried

Min(a, b) == IF a < b THEN a ELSE b

\* chunkArray(array, chunkSize): the loop from index i (0-based) on
RECURSIVE chunksFrom(_, _, _)
chunksFrom(array, chunkSize, i) ==
    IF i < Len(array)
      THEN <<SubSeq(array, i + 1, Min(i + chunkSize, Len(array)))>>
             \o chunksFrom(array, chunkSize, i + chunkSize)
      ELSE <<>>
chunkArray(array, chunkSize) == chunksFrom(array, chunkSize, 0)

BatchIdle ==
    [ pc        |-> "idle",      \* "pushing" | "returned" | "thrown"
      batchData |-> <<>>,
      batches   |-> <<>>,
      sent      |-> <<>>,        \* the chunks handed to pushCustomMetrics, in order
      results   |-> <<>>,
      failures  |-> 0,           \* pushCustomMetrics calls that raised
      thrown    |-> NoError,
      retry     |-> RetryIdle ]  \* the pushCustomMetrics call under way

NoApplication == [fn |-> "none", args |-> <<>>, pc |-> "none", result |-> <<>>]
LibIdle == batch = BatchIdle /\ app = NoApplication /\ rateLimiter = LimiterIdle

\* the next pass of `for (const batch of batches)`, or the return
BatchLoop(b) ==
    IF Len(b.sent) < Len(b.batches)
      THEN [b EXCEPT !.pc = "pushing",
                     !.sent = Append(@, b.batches[Len(b.sent) + 1]),
                     !.retry = makeRequest]
      ELSE [b EXCEPT !.pc = "returned"]

\* pushBatchMetrics(batchData) up to its first remote call
pushBatchMetrics(batchData) ==
    BatchLoop([BatchIdle EXCEPT !.batchData = batchData,
                                !.batches = chunkArray(batchData, BatchChunkSize)])

\* pushBatchMetrics after retryRequest moved to r1: the push of the chunk is
\* still under way, resolved (results.push, next chunk) or raised (throw error)
BatchAfterPushGoOn(b, r1) ==
    IF r1.pc = "returned"
      THEN BatchLoop([b EXCEPT !.retry = r1, !.results = Append(@, r1.result)])
      ELSE IF r1.pc = "thrown"
        THEN BatchLoop([b EXCEPT !.retry = r1, !.failures = @ + 1,
                                 !.thrown = r1.thrown])
        ELSE [b EXCEPT !.retry = r1]
BatchAfterPush(b, r1) ==
    IF r1.pc = "returned"
      THEN BatchLoop([b EXCEPT !.retry = r1, !.results = Append(@, r1.result)])
      ELSE IF r1.pc = "thrown"
        THEN [b EXCEPT !.pc = "thrown", !.retry = r1, !.failures = @ + 1,
                       !.thrown = r1.thrown]
        ELSE [b EXCEPT !.retry = r1]

(***************************************************************************)
(* JavaScript values of a webhook's data mapping, and determinePaymentStatus *)
(***************************************************************************)
\* A value is [t, n, s]: t is "undefined", "number", "NaN" (a number too, for
\* typeof), "boolean" (n = 1 for true) or "string" (s: its characters).
\* Amounts are whole numbers of the currency's unit.
Js(t, n, s) == [t |-> t, n |-> n, s |-> s]

MaxAmount == 2

parseFloat(v) ==
    LET digit(c) == CASE c = "0" -> 0 [] c = "1" -> 1 [] c = "2" -> 2
                      [] c = "3" -> 3 [] OTHER -> Null
        RECURSIVE digits(_, _, _)
        \* the longest prefix of decimal digits of str from i on; Null if empty
        digits(str, i, acc) ==
            IF i > Len(str) \/ digit(str[i]) = Null
              THEN acc
              ELSE digits(str, i + 1, (IF acc = Null THEN 0 ELSE acc) * 10 + digit(str[i]))
        neg == Len(v.s) > 0 /\ v.s[1] = "-"
        d   == digits(v.s, IF neg THEN 2 ELSE 1, Null)
    IN  IF v.t = "number" THEN v
        ELSE IF v.t = "string" /\ d # Null
          THEN Js("number", IF neg THEN 0 - d ELSE d, <<>>)
          ELSE Js("NaN", 0, <<>>)

\* the if / else-if chain that picks the status
paymentBranchPaidFirst(isCOD, totalAmount, paidAmount) ==
    LET Gt(a, b) == a.t = "number" /\ b.t = "number" /\ a.n > b.n
        Ge(a, b) == a.t = "number" /\ b.t = "number" /\ a.n >= b.n
        Lt(a, b) == a.t = "number" /\ b.t = "number" /\ a.n < b.n
        Zero == Js("number", 0, <<>>)
    IN  IF Ge(paidAmount, totalAmount) /\ Gt(totalAmount, Zero) THEN "Fully_Paid"
        ELSE IF isCOD THEN "COD"
        ELSE IF Gt(paidAmount, Zero) /\ Lt(paidAmount, totalAmount) THEN "Partially_Paid"
        ELSE IF paidAmount = Zero /\ Gt(totalAmount, Zero) THEN "Unpaid"
        ELSE IF totalAmount = Zero THEN "Free_Order"
        ELSE "Unknown"
paymentBranch(isCOD, totalAmount, paidAmount) ==
    LET Gt(a, b) == a.t = "number" /\ b.t = "number" /\ a.n > b.n
        Ge(a, b) == a.t = "number" /\ b.t = "number" /\ a.n >= b.n
        Lt(a, b) == a.t = "number" /\ b.t = "number" /\ a.n < b.n
        Zero == Js("number", 0, <<>>)
    IN  IF isCOD THEN "COD"
        ELSE IF Ge(paidAmount, totalAmount) /\ Gt(totalAmount, Zero) THEN "Fully_Paid"
        ELSE IF Gt(paidAmount, Zero) /\ Lt(paidAmount, totalAmount) THEN "Partially_Paid"
        ELSE IF paidAmount = Zero /\ Gt(totalAmount, Zero) THEN "Unpaid"
        ELSE IF totalAmount = Zero THEN "Free_Order"
        ELSE "Unknown"

determinePaymentStatus(orderData) ==
    LET ToBoolean(v) == CASE v.t = "undefined" -> FALSE
                          [] v.t = "NaN"       -> FALSE
                          [] v.t = "number"    -> v.n # 0
                          [] v.t = "boolean"   -> v.n = 1
                          [] v.t = "string"    -> v.s # <<>>
        Or(a, b) == IF ToBoolean(a) THEN a ELSE b
        lower(c) == CASE c = "C" -> "c" [] c = "O" -> "o" [] c = "D" -> "d"
                      [] c = "A" -> "a" [] c = "S" -> "s" [] c = "H" -> "h"
                      [] OTHER -> c
        toLowerCase(str) == [i \in 1..Len(str) |-> lower(str[i])]
        includes(str, sub) ==
            \E i \in 0..(Len(str) - Len(sub)) : SubSeq(str, i + 1, i + Len(sub)) = sub
        Gt(a, b) == a.t = "number" /\ b.t = "number" /\ a.n > b.n
        Zero == Js("number", 0, <<>>)
        Minus(a, b) == IF a.t = "number" /\ b.t = "number"
                         THEN Js("number", a.n - b.n, <<>>) ELSE Js("NaN", 0, <<>>)
        totalAmount == parseFloat(Or(orderData.total_amount, Zero))
        paidAmount  == parseFloat(Or(Or(orderData.amount_paid, orderData.paid_amount), Zero))
        codAmount   == parseFloat(Or(Or(orderData.cod_amount,
                                        orderData.cash_on_delivery_amount), Zero))
        method      == Or(orderData.payment_method, Js("string", 0, <<>>))
        paymentMethod == toLowerCase(method.s)
        isCOD == \/ includes(paymentMethod, <<"c", "o", "d">>)
                 \/ includes(paymentMethod, <<"c", "a", "s", "h">>)
                 \/ Gt(codAmount, Zero)
                 \/ orderData.is_cod = Js("boolean", 1, <<>>)
                 \/ orderData.payment_mode = Js("string", 0, <<"C", "O", "D">>)
        branch == paymentBranch(isCOD, totalAmount, paidAmount)
        codOrTotal == IF Gt(codAmount, Zero) THEN codAmount ELSE totalAmount
        returned ==
            [ status            |-> branch,
              isCOD             |-> isCOD,
              isFullyPaid       |-> branch \in {"Fully_Paid", "Free_Order"},
              isPartiallyPaid   |-> branch = "Partially_Paid",
              isPrepaid         |-> branch = "Fully_Paid",
              totalAmount       |-> totalAmount,
              paidAmount        |-> paidAmount,
              codAmount         |-> IF isCOD THEN codOrTotal ELSE Zero,
              outstandingAmount |->
                  CASE branch = "COD"            -> codOrTotal
                    [] branch = "Partially_Paid" -> Minus(totalAmount, paidAmount)
                    [] branch = "Unpaid"         -> totalAmount
                    [] OTHER                     -> Zero,
              paymentMethod     |-> Or(orderData.payment_method,
                                       Js("string", 0, <<"U", "n", "k", "n", "o", "w", "n">>)) ]
    IN  IF method.t # "string"      \* TypeError: .toLowerCase is not a function
          THEN [pc |-> "raised", result |-> <<>>]
          ELSE [pc |-> "returned", result |-> returned]

\* data mappings of a webhook: the fields determinePaymentStatus reads
OrderData ==
    LET undefined == Js("undefined", 0, <<>>)
        Str(str)  == Js("string", 0, str)
        amounts   == {undefined, Str(<<"2">>), Str(<<"a", "b", "c">>)}
                         \cup {Js("number", n, <<>>) : n \in (0 - 1)..MaxAmount}
    IN  [ total_amount            : amounts,
          amount_paid             : amounts,
          paid_amount             : {undefined, Js("number", 1, <<>>)},
          cod_amount              : {undefined, Js("number", 1, <<>>), Str(<<"a", "b", "c">>)},
          cash_on_delivery_amount : {undefined, Js("number", 2, <<>>)},
          payment_method          : {undefined, Str(<<>>), Str(<<"C", "O", "D">>),
                                     Str(<<"C", "a", "s", "h">>), Str(<<"c", "a", "r", "d">>),
                                     Js("number", 5, <<>>)},
          is_cod                  : {undefined, Js("boolean", 1, <<>>), Js("boolean", 0, <<>>)},
          payment_mode            : {undefined, Str(<<"C", "O", "D">>), Str(<<"c", "o", "d">>)} ]

(***************************************************************************)
(* The transformations of processWebhookEvent.  A date-time string is the  *)
(* sequence <<date, "T", time>>; new Date().toISOString().split('T')[0] is *)
(* the UTC day of the clock.  A metric is [metric_name, value, date,       *)
(* dimensions]; a transformation gives [pc, result] like the classifier.   *)
(* The dimensions source and event, constants of each metric, are left out.*)
(***************************************************************************)
ISODate(t) ==
    Js("string", 0, << CASE t \div 86400000 = 0 -> "1970-01-01"
                         [] t \div 86400000 = 1 -> "1970-01-02"
                         [] OTHER               -> "1970-01-03" >>)

\* field ? field.split('T')[0] : today; a TypeError if .split is not a function
MetricDateClock(field, t) == ISODate(t)
MetricDate(field, t) ==
    IF field.t = "undefined" \/ field = Js("string", 0, <<>>) THEN ISODate(t)
    ELSE IF field.t # "string" THEN Js("TypeError", 0, <<>>)
    ELSE Js("string", 0, SubSeq(field.s, 1,
            (CHOOSE i \in 1..(Len(field.s) + 1) :
                /\ i = Len(field.s) + 1 \/ field.s[i] = "T"
                /\ \A j \in 1..(i - 1) : field.s[j] # "T") - 1))

\* "COD Orders Tracking" of processOrderCreated
codOrdersTrackingAlways(data, paymentStatus, date) ==
    << [ metric_name |-> "shiprocket_cod_orders", value |-> Js("number", 1, <<>>),
         date |-> date,
         dimensions |-> [order_id |-> data.order_id,
                         cod_amount |-> paymentStatus.codAmount] ] >>
codOrdersTracking(data, paymentStatus, date) ==
    IF ~paymentStatus.isCOD THEN <<>>
    ELSE << [ metric_name |-> "shiprocket_cod_orders", value |-> Js("number", 1, <<>>),
              date |-> date,
              dimensions |-> [order_id |-> data.order_id,
                              cod_amount |-> paymentStatus.codAmount] ] >>
         \o (IF paymentStatus.codAmount.t = "number" /\ paymentStatus.codAmount.n > 0
               THEN << [ metric_name |-> "shiprocket_cod_amount",
                         value |-> paymentStatus.codAmount,
                         date |-> date,
                         dimensions |-> [order_id |-> data.order_id, currency |-> "INR"] ] >>
               ELSE <<>>)

processOrderCreated(data, t) ==
    LET date == MetricDate(data.order_date, t)
        classified == determinePaymentStatus(data)
        paymentStatus == classified.result
        Truthy2(v) == ~(v.t \in {"undefined", "NaN"}) /\ v # Js("number", 0, <<>>)
                          /\ v # Js("string", 0, <<>>) /\ v # Js("boolean", 0, <<>>)
        OrElse(v, str) == IF Truthy2(v) THEN v ELSE Js("string", 0, <<str>>)
        Metric(name, value, dims) ==
            [metric_name |-> name, value |-> value, date |-> date, dimensions |-> dims]
        One == Js("number", 1, <<>>)
        Positive(v) == v.t = "number" /\ v.n > 0
        RECURSIVE totalQuantity(_, _)
        totalQuantity(products, i) ==
            IF i > Len(products) THEN 0
            ELSE (IF products[i] = 0 THEN 1 ELSE products[i]) + totalQuantity(products, i + 1)
        created ==
            << Metric("shiprocket_orders_created", One,
                      [ order_id |-> data.order_id,
                        channel |-> OrElse(data.channel_name, "unknown"),
                        payment_method |-> OrElse(data.payment_method, "unknown"),
                        payment_status |-> paymentStatus.status,
                        is_cod |-> paymentStatus.isCOD,
                        is_fully_paid |-> paymentStatus.isFullyPaid,
                        is_partially_paid |-> paymentStatus.isPartiallyPaid ]),
               Metric("shiprocket_payment_status", One,
                      [ order_id |-> data.order_id,
                        payment_status |-> paymentStatus.status,
                        payment_type |-> IF paymentStatus.isCOD THEN "COD" ELSE "Online" ]) >>
        cod == codOrdersTracking(data, paymentStatus, date)
        prepaid ==
            IF paymentStatus.isPrepaid
              THEN << Metric("shiprocket_prepaid_orders", One,
                             [ order_id |-> data.order_id,
                               prepaid_amount |-> paymentStatus.paidAmount ]) >>
              ELSE <<>>
        partial ==
            IF paymentStatus.isPartiallyPaid
              THEN << Metric("shiprocket_partially_paid_orders", One,
                             [ order_id |-> data.order_id,
                               paid_amount |-> paymentStatus.paidAmount,
                               outstanding_amount |-> paymentStatus.outstandingAmount,
                               total_amount |-> paymentStatus.totalAmount ]),
                      Metric("shiprocket_outstanding_amount", paymentStatus.outstandingAmount,
                             [order_id |-> data.order_id, currency |-> "INR"]) >>
              ELSE <<>>
        value ==
            IF Truthy2(data.total_amount)
              THEN << Metric("shiprocket_order_value", parseFloat(data.total_amount),
                             [ order_id |-> data.order_id,
                               channel |-> OrElse(data.channel_name, "unknown"),
                               currency |-> "INR",
                               payment_status |-> paymentStatus.status,
                               paid_amount |-> paymentStatus.paidAmount,
                               outstanding_amount |-> paymentStatus.outstandingAmount ]) >>
              ELSE <<>>
        products ==
            IF data.products.t = "array"
              THEN << Metric("shiprocket_products_ordered",
                             Js("number", Len(data.products.s), <<>>),
                             [order_id |-> data.order_id, payment_status |-> paymentStatus.status]),
                      Metric("shiprocket_items_ordered",
                             Js("number", totalQuantity(data.products.s, 1), <<>>),
                             [order_id |-> data.order_id, payment_status |-> paymentStatus.status]) >>
              ELSE <<>>
    IN  IF date.t = "TypeError" \/ classified.pc = "raised"
          THEN [pc |-> "raised", result |-> <<>>]
          ELSE [pc |-> "returned",
                result |-> created \o cod \o prepaid \o partial \o value \o products]

processOrderShipped(data, t) ==
    LET date == MetricDate(data.shipped_date, t)
        Present(v) == ~(v.t \in {"undefined", "NaN"}) /\ v # Js("number", 0, <<>>)
                          /\ v # Js("string", 0, <<>>)
        courier == IF Present(data.courier_name) THEN data.courier_name
                   ELSE Js("string", 0, <<"unknown">>)
        Metric(name, value, dims) ==
            [metric_name |-> name, value |-> value, date |-> date, dimensions |-> dims]
        \* new Date(string).getTime(); Null stands for NaN (Invalid Date)
        Time(v) == CASE v.s[1] = "1970-01-01" -> 0
                     [] v.s[1] = "1970-01-02" -> 86400000
                     [] OTHER                 -> Null
        hours == IF Time(data.order_created_date) = Null \/ Time(data.shipped_date) = Null
                   THEN Js("NaN", 0, <<>>)
                   ELSE Js("number",
                           (Time(data.shipped_date) - Time(data.order_created_date))
                               \div (1000 * 60 * 60), <<>>)
    IN  IF date.t = "TypeError"
          THEN [pc |-> "raised", result |-> <<>>]
          ELSE [pc |-> "returned",
                result |->
                    << Metric("shiprocket_shipments_created", Js("number", 1, <<>>),
                              [ order_id |-> data.order_id, shipment_id |-> data.shipment_id,
                                courier |-> courier ]) >>
                    \o (IF Present(data.shipping_charges)
                          THEN << Metric("shiprocket_shipping_cost",
                                         parseFloat(data.shipping_charges),
                                         [ order_id |-> data.order_id,
                                           shipment_id |-> data.shipment_id,
                                           courier |-> courier, currency |-> "INR" ]) >>
                          ELSE <<>>)
                    \o (IF Present(data.order_created_date) /\ Present(data.shipped_date)
                          THEN << Metric("shiprocket_processing_time", hours,
                                         [order_id |-> data.order_id, unit |-> "hours"]) >>
                          ELSE <<>>)]

processShipmentPickup(data, t) ==
    LET date == MetricDate(data.pickup_date, t)
    IN  IF date.t = "TypeError"
          THEN [pc |-> "raised", result |-> <<>>]
          ELSE [pc |-> "returned",
                result |->
                    << [ metric_name |-> "shiprocket_pickups",
                         value |-> Js("number", 1, <<>>),
                         date |-> date,
                         dimensions |->
                             [ shipment_id |-> data.shipment_id,
                               courier |-> IF data.courier_name.t = "string"
                                                /\ data.courier_name.s # <<>>
                                             THEN data.courier_name
                                             ELSE Js("string", 0, <<"unknown">>) ] ] >>]

processInTransit(data, t) ==
    [pc |-> "returned",
     result |-> << [ metric_name |-> "shiprocket_in_transit",
                     value |-> Js("number", 1, <<>>),
                     date |-> ISODate(t),
                     dimensions |-> [ shipment_id |-> data.shipment_id,
                                      order_id |-> data.order_id ] ] >>]

processOrderReturned(data, t) ==
    LET Present(v) == ~(v.t \in {"undefined", "NaN"}) /\ v # Js("number", 0, <<>>)
                          /\ v # Js("string", 0, <<>>)
        date == MetricDate(IF Present(data.returned_date) THEN data.returned_date
                           ELSE data.rto_date, t)
        rto == Js("string", 0, <<"rto">>)
        isRTO == data.event_type = rto \/ data.return_type = rto
        classified == determinePaymentStatus(data)
        paymentStatus == classified.result
        Metric(name, value, dims) ==
            [metric_name |-> name, value |-> value, date |-> date, dimensions |-> dims]
        One == Js("number", 1, <<>>)
        OrElse(v, str) == IF Present(v) THEN v ELSE Js("string", 0, <<str>>)
    IN  IF date.t = "TypeError" \/ classified.pc = "raised"
          THEN [pc |-> "raised", result |-> <<>>]
          ELSE [pc |-> "returned",
                result |->
                    << Metric(IF isRTO THEN "shiprocket_rto_orders" ELSE "shiprocket_returns",
                              One,
                              [ event |-> IF isRTO THEN "rto" ELSE "return",
                                order_id |-> data.order_id,
                                shipment_id |-> data.shipment_id,
                                reason |-> OrElse(data.return_reason, "unknown"),
                                payment_status |-> paymentStatus.status,
                                was_cod |-> paymentStatus.isCOD ]) >>
                    \o (IF isRTO /\ paymentStatus.isCOD
                          THEN << Metric("shiprocket_cod_collection_failed", One,
                                         [ order_id |-> data.order_id,
                                           shipment_id |-> data.shipment_id,
                                           failure_reason |-> OrElse(data.return_reason, "rto"),
                                           collection_status |-> "failed" ]) >>
                               \o (IF paymentStatus.codAmount.t = "number"
                                        /\ paymentStatus.codAmount.n > 0
                                     THEN << Metric("shiprocket_cod_collection_failed_amount",
                                                    paymentStatus.codAmount,
                                                    [ order_id |-> data.order_id,
                                                      currency |-> "INR",
                                                      failure_type |-> "rto" ]) >>
                                     ELSE <<>>)
                               \o << Metric("shiprocket_payment_status_updated", One,
                                            [ order_id |-> data.order_id,
                                              previous_status |-> "COD",
                                              new_status |-> "Failed_Collection",
                                              failure_method |-> "RTO" ]) >>
                          ELSE <<>>)
                    \o (IF Present(data.return_charges)
                          THEN << Metric("shiprocket_return_cost",
                                         parseFloat(data.return_charges),
                                         [ event |-> IF isRTO THEN "rto" ELSE "return",
                                           order_id |-> data.order_id,
                                           currency |-> "INR",
                                           payment_type |-> IF paymentStatus.isCOD
                                                              THEN "COD" ELSE "Prepaid" ]) >>
                          ELSE <<>>)]

\* the switch of processWebhookEvent, for six of its event types
Transform(eventType, data, t) ==
    CASE eventType = "order_created"   -> processOrderCreated(data, t)
      [] eventType = "order_shipped"   -> processOrderShipped(data, t)
      [] eventType = "shipment_pickup" -> processShipmentPickup(data, t)
      [] eventType = "in_transit"      -> processInTransit(data, t)
      [] eventType = "order_returned"  -> processOrderReturned(data, t)
      [] eventType = "rto"             -> processOrderReturned(data, t)

\* data mappings of the events of one type that pass validateWebhookData: the
\* fields its transformation reads, every other field absent
EventData(eventType) ==
    LET undefined == Js("undefined", 0, <<>>)
        Str(str)  == Js("string", 0, str)
        Number(n) == Js("number", n, <<>>)
        Day1 == Str(<<"1970-01-01", "T", "00:00:00Z">>)
        Day2 == Str(<<"1970-01-02", "T", "00:00:00Z">>)
        none == [ f \in { "channel_name", "courier_name", "total_amount", "amount_paid",
                          "paid_amount", "cod_amount", "cash_on_delivery_amount",
                          "payment_method", "is_cod", "payment_mode", "order_date",
                          "shipped_date", "order_created_date", "pickup_date",
                          "shipping_charges", "products", "event_type", "return_type",
                          "returned_date", "rto_date", "return_reason", "return_charges",
                          "order_id", "shipment_id" } |->
                    CASE f = "order_id"    -> Number(1)
                      [] f = "shipment_id" -> Number(7)
                      [] OTHER             -> undefined ]
    IN  CASE eventType = "order_created" ->
               \* orderDataSchema: total_amount a positive number, payment_method a string
               { [none EXCEPT !.total_amount = total, !.amount_paid = paid,
                              !.cod_amount = cod, !.payment_method = method,
                              !.order_date = date, !.products = products] :
                   total \in {undefined, Number(2), Number(1000)},
                   paid \in {undefined, Number(1)},
                   cod \in {undefined, Number(1000)},
                   method \in {undefined, Str(<<"C", "O", "D">>)},
                   date \in {undefined, Day1},
                   products \in {undefined, Js("array", 0, <<>>), Js("array", 0, <<0, 2>>)} }
          [] eventType = "order_shipped" ->
               { [none EXCEPT !.shipped_date = shipped, !.order_created_date = created,
                              !.shipping_charges = charges] :
                   shipped \in {undefined, Day2},
                   created \in {undefined, Day1},
                   charges \in {undefined, Number(2)} }
          [] eventType = "shipment_pickup" ->
               { [none EXCEPT !.pickup_date = date] : date \in {undefined, Day1} }
          [] eventType = "in_transit" -> {none}
          [] eventType \in {"order_returned", "rto"} ->
               \* the default schema: only order_id and shipment_id are constrained
               { [none EXCEPT !.total_amount = total, !.cod_amount = cod,
                              !.payment_method = method, !.event_type = type,
                              !.return_type = kind, !.returned_date = date,
                              !.return_charges = charges] :
                   total \in {undefined, Number(2), Str(<<"a", "b", "c">>)},
                   cod \in {undefined, Number(1)},
                   method \in {undefined, Str(<<"C", "O", "D">>), Number(5)},
                   type \in {undefined, Str(<<"rto">>)},
                   kind \in {undefined, Str(<<"rto">>)},
                   date \in {undefined, Day1},
                   charges \in {undefined, Number(2)} }

(***************************************************************************)
(* The server: webhook route, processWebhookEvent, the Triple Whale        *)
(* client's makeRequest, and the Triple Whale part of GET /health.         *)
(* The client authenticates with the API key (no OAuth client id).         *)
(***************************************************************************)
NumWebhooks == 1         \* concurrent webhook requests
NumHealthReqs == 1       \* concurrent health requests

Webhooks == 1..NumWebhooks
HealthReqs == (NumWebhooks + 1)..(NumWebhooks + NumHealthReqs)

\* The signature header is a string over hex digits and the prefix 'sha256='
\* (one symbol, not a hex digit); digest('hex') of the HMAC has DigestHexLen
\* digits and is a function of secret and payload.
MaxHeaderLen == 3        \* longest signature header tried
HexChars == {"0", "1"}
HeaderChars == HexChars \cup {"sha256="}
Headers == UNION {[1..n -> HeaderChars] : n \in 0..MaxHeaderLen}
Payloads == 0..1         \* JSON.stringify(req.body)
HexOf(n) == IF n % 2 = 0 THEN "0" ELSE "1"
HmacHex(secret, payload) == <<HexOf(secret), HexOf(payload)>>
DigestHexLen == Len(HmacHex(0, 0))

\* event types: two of the switch of processWebhookEvent and one it does not know
KnownEventTypes ==
    { "order_created", "order_placed", "order_shipped", "shipment_created",
      "order_delivered", "delivered", "order_cancelled", "cancelled",
      "order_returned", "rto", "shipment_pickup", "in_transit",
      "out_for_delivery", "failed_delivery", "delivery_failed" }
EventTypes == {"order_created", "in_transit", "order_archived"}

\* a webhook request: the signature header (x-shiprocket-signature or
\* authorization) and the body
WebhookBodies ==
    { body \in [ payload    : Payloads,
                 valid      : BOOLEAN,   \* validateWebhookData(req.body).isValid
                 event_type : EventTypes,
                 throws     : BOOLEAN ] : \* the process* function throws on data
        /\ body.throws => body.valid /\ body.event_type = "order_created"
        /\ ~body.valid => body.event_type = "order_created" }
WebhookRequests ==
    { req \in [hasSignature : BOOLEAN, signature : Headers, body : WebhookBodies] :
        ~req.hasSignature => req.signature = <<>> }

\* what the sender presented, in the words of the interface: no header, a
\* header of DigestHexLen hex digits (after the prefix) equal to or different
\* from the HMAC of the body, or anything else
Stripped(s) == IF Len(s) > 0 /\ s[1] = "sha256=" THEN Tail(s) ELSE s
SignatureKind(req) ==
    IF ~req.hasSignature
      THEN "absent"
      ELSE LET s == Stripped(req.signature)
           IN  IF Len(s) # DigestHexLen \/ \E i \in 1..Len(s) : s[i] \notin HexChars
                 THEN "malformed"
                 ELSE IF s = HmacHex(config.shiprocket.webhookSecret, req.body.payload)
                   THEN "matches"
                   ELSE "mismatch"
Seen(req) ==
    [ signature |-> SignatureKind(req),
      valid     |-> req.body.valid,
      known     |-> req.body.event_type \in KnownEventTypes,
      throws    |-> req.body.throws ]

\* failures of the Triple Whale API: 500, 404, and the Error of a failed
\* authentication
RemoteErrorKinds ==
    { [status |-> 500, code |-> "none"], [status |-> 404, code |-> "none"], PlainError }

NoResponse == [status |-> 0, success |-> FALSE]
NoResult == [outcome |-> "none", metricsGenerated |-> Undefined]
WebhookIdle ==
    [ pc          |-> "idle",
      response    |-> NoResponse,
      retry       |-> RetryIdle,  \* pushCustomMetrics: makeRequest's retryRequest
      seen        |-> [signature |-> "absent", valid |-> FALSE, known |-> FALSE,
                       throws |-> FALSE],
      processed   |-> FALSE,      \* processWebhookEvent was called
      transformed |-> FALSE,      \* a process* function was called
      metrics     |-> 0,          \* metrics.length
      result      |-> NoResult,   \* what processWebhookEvent returned or "threw"
      stages      |-> <<>>,       \* the stages of the route entered, in order
      responses   |-> 0 ]         \* res.json() calls
HealthIdle ==
    [ pc      |-> "idle",      \* "checking" | "done" | "raised"
      service |-> "checking",  \* status of the object healthCheck() returns
      error   |-> NoError,     \* the error whose message it returns
      retry   |-> RetryIdle ]

\* const tripleWhaleCircuitBreaker = new CircuitBreaker({...})
TripleWhaleBreakerOptions == [failureThreshold |-> 3, resetTimeout |-> 30000]

ServerIdle ==
    /\ tripleWhaleCircuitBreaker = CircuitBreaker(TripleWhaleBreakerOptions)
    /\ wh = [w \in Webhooks |-> WebhookIdle]
    /\ hc = [h \in HealthReqs |-> HealthIdle]
    /\ ClientIdle
    /\ LibIdle

\* signature.replace('sha256=', ''): the first occurrence goes
RECURSIVE Replace(_)
Replace(s) ==
    IF s = <<>> THEN <<>>
    ELSE IF Head(s) = "sha256=" THEN Tail(s) ELSE <<Head(s)>> \o Replace(Tail(s))

\* Buffer.from(s, 'hex'): one byte per pair of hex digits, up to the first
\* pair that is not one
RECURSIVE BufferFromHex(_)
BufferFromHex(s) ==
    IF Len(s) >= 2 /\ s[1] \in HexChars /\ s[2] \in HexChars
      THEN <<SubSeq(s, 1, 2)>> \o BufferFromHex(SubSeq(s, 3, Len(s)))
      ELSE <<>>

\* crypto.timingSafeEqual(a, b): throws on buffers of different length
timingSafeEqualLengthOnly(a, b) == IF Len(a) # Len(b) THEN "throws" ELSE "true"
timingSafeEqual(a, b) ==
    IF Len(a) # Len(b) THEN "throws" ELSE IF a = b THEN "true" ELSE "false"

\* verifyWebhookSignature(payload, signature, secret)
verifyWebhookSignature(payload, signature, secret) ==
    IF ~config.webhook.verifySignature
      THEN "true"
      ELSE timingSafeEqual(BufferFromHex(HmacHex(secret, payload)),
                           BufferFromHex(Replace(signature)))

\* res.status(n).json({success: ...})
Respond(r, n, ok) ==
    [r EXCEPT !.pc = "responded", !.response = [status |-> n, success |-> ok],
              !.responses = @ + 1]

\* a stage of the route is entered
Enter(r, stage) == [r EXCEPT !.stages = Append(@, stage)]

\* the catch block of the route
WebhookCaughtServerError(r) == Respond(r, 500, FALSE)
WebhookCaught(r) == Respond(r, 200, FALSE)

\* the webhook route after retryRequest moved to r1: the push is still under
\* way, or processWebhookEvent returned / threw and the response is sent
WebhookAfterPushSwallow(r, r1) ==
    IF RetryTerminal(r1)
      THEN Respond([r EXCEPT !.retry = r1,
                             !.result = [outcome |-> "success",
                                         metricsGenerated |-> r.metrics]],
                   200, TRUE)
      ELSE [r EXCEPT !.pc = "pushing", !.retry = r1]
WebhookAfterPush(r, r1) ==
    IF r1.pc = "returned"
      THEN Respond([r EXCEPT !.retry = r1,
                             !.result = [outcome |-> "success",
                                         metricsGenerated |-> r.metrics]],
                   200, TRUE)
      ELSE IF r1.pc = "thrown"
        THEN WebhookCaught([r EXCEPT !.retry = r1, !.result.outcome = "threw"])
        ELSE [r EXCEPT !.pc = "pushing", !.retry = r1]

\* metrics.length of the array a process* function returns: every one of them
\* pushes or returns at least one metric
MetricsOf(body) == IF body.event_type = "order_created" THEN 2 ELSE 1

\* processWebhookEvent(eventType, data) and the rest of the route
processWebhookEvent(r, body) ==
    LET r1 == Enter([r EXCEPT !.processed = TRUE], "transform")
    IN  IF body.event_type \notin KnownEventTypes
          THEN Respond([r1 EXCEPT !.result.outcome = "failure"], 200, TRUE)
          ELSE IF body.throws
            THEN WebhookCaught([r1 EXCEPT !.transformed = TRUE,
                                          !.result.outcome = "threw"])
            ELSE WebhookAfterPush(Enter([r1 EXCEPT !.transformed = TRUE,
                                                   !.metrics = MetricsOf(body)],
                                        "deliver"),
                                  makeRequest)

\* the signature stage of the route: "pass", "reject" (401) or "throws"
SignatureStageNoCheck(req) == "pass"
SignatureStage(req) ==
    IF config.webhook.verifySignature /\ req.hasSignature /\ req.signature # <<>>
      THEN LET isValid == verifyWebhookSignature(req.body.payload, req.signature,
                                                 config.shiprocket.webhookSecret)
           IN  IF isValid = "throws" THEN "throws"
               ELSE IF isValid = "false" THEN "reject" ELSE "pass"
      ELSE "pass"

\* the validation stage of the route
ValidationStageNoCheck(body) == TRUE
ValidationStage(body) == body.valid

\* router.post('/shiprocket'): up to the response, or to the first remote call
\* of tripleWhaleAPI.pushCustomMetrics(metrics)
WebhookRoute(r, req) ==
    LET verifies == config.webhook.verifySignature /\ req.hasSignature
                      /\ req.signature # <<>>
        r0 == [r EXCEPT !.seen = Seen(req)]
        r1 == IF verifies THEN Enter(r0, "verify") ELSE r0
        stage == SignatureStage(req)
    IN  IF stage = "throws"
          THEN WebhookCaught(r1)
          ELSE IF stage = "reject"
            THEN Respond(r1, 401, FALSE)
            ELSE IF ~ValidationStage(req.body)
              THEN Respond(Enter(r1, "validate"), 400, FALSE)
              ELSE processWebhookEvent(Enter(r1, "validate"), req.body)

\* POST /webhooks/shiprocket arrives
WebhookPost(w, req) ==
    /\ wh[w].pc = "idle"
    /\ wh' = [wh EXCEPT ![w] = WebhookRoute(wh[w], req)]
    /\ UNCHANGED <<now, config, breakerVars, rq, tripleWhaleCircuitBreaker, hc, clientVars, libVars>>

\* the Triple Whale API answers the push of webhook w
WebhookRemoteResolves(w, v) ==
    /\ wh[w].pc = "pushing"
    /\ wh[w].retry.pc = "awaitFn"
    /\ wh' = [wh EXCEPT ![w] = WebhookAfterPush(wh[w], RetryOnResolve(wh[w].retry, v))]
    /\ UNCHANGED <<now, config, breakerVars, rq, tripleWhaleCircuitBreaker, hc, clientVars, libVars>>

\* the push of webhook w fails
WebhookRemoteRejects(w, k) ==
    /\ wh[w].pc = "pushing"
    /\ wh[w].retry.pc = "awaitFn"
    /\ wh' = [wh EXCEPT ![w] =
                WebhookAfterPush(wh[w], RetryOnReject(wh[w].retry, MkError(k, wh[w].retry.nCalls)))]
    /\ UNCHANGED <<now, config, breakerVars, rq, tripleWhaleCircuitBreaker, hc, clientVars, libVars>>

\* the retry sleep of webhook w is over
WebhookRetryWakes(w) ==
    /\ wh[w].pc = "pushing"
    /\ wh[w].retry.pc = "sleeping"
    /\ wh' = [wh EXCEPT ![w] = WebhookAfterPush(wh[w], RetryOnWake(wh[w].retry))]
    /\ UNCHANGED <<now, config, breakerVars, rq, tripleWhaleCircuitBreaker, hc, clientVars, libVars>>

\* TripleWhaleAPI.healthCheck() after retryRequest moved to r1: it returns
\* {status: ...} also when getCurrentUser() threw an error
healthCheckRethrow(r, r1) ==
    IF r1.pc = "returned"
      THEN [r EXCEPT !.pc = "done", !.service = "healthy", !.retry = r1]
      ELSE IF r1.pc = "thrown"
        THEN [r EXCEPT !.pc = "raised", !.retry = r1]
        ELSE [r EXCEPT !.pc = "checking", !.retry = r1]
healthCheck(r, r1) ==
    IF r1.pc = "returned"
      THEN [r EXCEPT !.pc = "done", !.service = "healthy", !.retry = r1]
      ELSE IF r1.pc = "thrown"
        THEN IF r1.thrown = NoError     \* `throw lastError` of a loop that never
                                       \* ran: error.message of undefined raises
               THEN [r EXCEPT !.pc = "raised", !.retry = r1]
               ELSE [r EXCEPT !.pc = "done", !.service = "unhealthy",
                              !.error = r1.thrown, !.retry = r1]
        ELSE [r EXCEPT !.pc = "checking", !.retry = r1]

\* tripleWhaleCircuitBreaker.execute(fn) once fn has settled: healthCheck()
\* never rejects, so execute() runs onSuccess()
HealthSettles(b, r) ==
    IF r.pc = "done" THEN onSuccess(b)
    ELSE IF r.pc = "raised" THEN onFailure(b, now)
    ELSE b

\* GET /health: tripleWhaleCircuitBreaker.execute(() => tripleWhaleAPI.healthCheck())
HealthGet(h) ==
    /\ hc[h].pc = "idle"
    /\ IF ExecuteBlocked(tripleWhaleCircuitBreaker, now)
         THEN /\ hc' = [hc EXCEPT ![h] = [@ EXCEPT !.pc = "done", !.service = "unhealthy"]]
              /\ UNCHANGED tripleWhaleCircuitBreaker
         ELSE /\ hc' = [hc EXCEPT ![h] = healthCheck(hc[h], makeRequest)]
              /\ tripleWhaleCircuitBreaker' =
                     HealthSettles(ExecuteEnter(tripleWhaleCircuitBreaker, now), hc'[h])
    /\ UNCHANGED <<now, config, breakerVars, rq, wh, clientVars, libVars>>

\* the Triple Whale API answers the health request
HealthRemoteResolves(h, v) ==
    /\ hc[h].pc = "checking"
    /\ hc[h].retry.pc = "awaitFn"
    /\ hc' = [hc EXCEPT ![h] = healthCheck(hc[h], RetryOnResolve(hc[h].retry, v))]
    /\ tripleWhaleCircuitBreaker' = HealthSettles(tripleWhaleCircuitBreaker, hc'[h])
    /\ UNCHANGED <<now, config, breakerVars, rq, wh, clientVars, libVars>>

\* the request of the health check fails
HealthRemoteRejects(h, k) ==
    /\ hc[h].pc = "checking"
    /\ hc[h].retry.pc = "awaitFn"
    /\ hc' = [hc EXCEPT ![h] =
                healthCheck(hc[h], RetryOnReject(hc[h].retry, MkError(k, hc[h].retry.nCalls)))]
    /\ tripleWhaleCircuitBreaker' = HealthSettles(tripleWhaleCircuitBreaker, hc'[h])
    /\ UNCHANGED <<now, config, breakerVars, rq, wh, clientVars, libVars>>

\* the retry sleep of the health check is over
HealthRetryWakes(h) ==
    /\ hc[h].pc = "checking"
    /\ hc[h].retry.pc = "sleeping"
    /\ hc' = [hc EXCEPT ![h] = healthCheck(hc[h], RetryOnWake(hc[h].retry))]
    /\ tripleWhaleCircuitBreaker' = HealthSettles(tripleWhaleCircuitBreaker, hc'[h])
    /\ UNCHANGED <<now, config, breakerVars, rq, wh, clientVars, libVars>>

\* requests whose remote calls run inside tripleWhaleCircuitBreaker.execute()
InsideTripleWhaleBreaker == {h \in HealthReqs : hc[h].pc = "checking"}

\* requests with a remote call to Triple Whale in flight
RemoteCallInFlight ==
    {w \in Webhooks : wh[w].pc = "pushing" /\ wh[w].retry.pc = "awaitFn"}
      \cup {h \in HealthReqs : hc[h].pc = "checking" /\ hc[h].retry.pc = "awaitFn"}

InitServer ==
    /\ now = 0
    /\ \E env \in Env : config = ConfigOf(env)
    /\ cb = CircuitBreaker([failureThreshold |-> 0, resetTimeout |-> 0])
    /\ pc = [c \in Callers |-> "idle"]
    /\ fnInvoked = 0
    /\ nOk = 0
    /\ nErr = 0
    /\ nBlocked = 0
    /\ probe = NoCaller
    /\ probeAlone = TRUE
    /\ last = [op |-> "init", caller |-> NoCaller, probe |-> FALSE]
    /\ runs = [streak |-> 0, longest |-> 0, serial |-> TRUE]
    /\ rq = RetryIdle
    /\ ServerIdle

NextServer ==
    \/ \E w \in Webhooks, req \in WebhookRequests : WebhookPost(w, req)
    \/ \E w \in Webhooks, v \in Values : WebhookRemoteResolves(w, v)
    \/ \E w \in Webhooks, k \in RemoteErrorKinds : WebhookRemoteRejects(w, k)
    \/ \E w \in Webhooks : WebhookRetryWakes(w)
    \/ \E h \in HealthReqs : HealthGet(h)
    \/ \E h \in HealthReqs, v \in Values : HealthRemoteResolves(h, v)
    \/ \E h \in HealthReqs, k \in RemoteErrorKinds : HealthRemoteRejects(h, k)
    \/ \E h \in HealthReqs : HealthRetryWakes(h)

SpecServer == InitServer /\ [][NextServer]_vars

(***************************************************************************)
(* SpecWebhook: webhook deliveries alone, every request and every verdict  *)
(* of the Triple Whale API                                                 *)
(***************************************************************************)
\* the configurations tried: MAX_RETRY_ATTEMPTS unset, 1 or 2
InitWebhook == InitServer /\ config.retry.maxAttempts <= DefaultMaxRetryAttempts

NextWebhook ==
    \/ \E w \in Webhooks, req \in WebhookRequests : WebhookPost(w, req)
    \/ \E w \in Webhooks : WebhookRemoteResolves(w, "v1")
    \/ \E w \in Webhooks, k \in RemoteErrorKinds : WebhookRemoteRejects(w, k)
    \/ \E w \in Webhooks : WebhookRetryWakes(w)

SpecWebhook == InitWebhook /\ [][NextWebhook]_vars

\* the Triple Whale API answers every request (the axios instance has a
\* timeout) and every retry sleep ends
FairSpecWebhook ==
    /\ SpecWebhook
    /\ \A w \in Webhooks :
          /\ WF_vars(WebhookRemoteResolves(w, "v1")
                       \/ \E k \in RemoteErrorKinds : WebhookRemoteRejects(w, k))
          /\ WF_vars(WebhookRetryWakes(w))

(***************************************************************************)
(* SpecHealth: health checks alone, every verdict of the Triple Whale API  *)
(***************************************************************************)
InitHealth == InitServer /\ ~config.webhook.verifySignature

NextHealth ==
    \/ \E h \in HealthReqs : HealthGet(h)
    \/ \E h \in HealthReqs, v \in Values : HealthRemoteResolves(h, v)
    \/ \E h \in HealthReqs, k \in ErrorKinds : HealthRemoteRejects(h, k)
    \/ \E h \in HealthReqs : HealthRetryWakes(h)

SpecHealth == InitHealth /\ [][NextHealth]_vars

(***************************************************************************)
(* SpecClient: concurrent makeRequest calls of one TripleWhaleAPI instance *)
(* against a dependency and a token endpoint that answer arbitrarily       *)
(***************************************************************************)
ClientErrorKinds == [status : {401, 400}, code : {"none"}]
TokenInFlight == {c \in ClientCalls : calls[c].stage \in {"authenticating", "refreshing"}}

\* a caller invokes makeRequest
MakeRequest(c) ==
    /\ calls[c].retry.pc = "idle"
    /\ calls' = [calls EXCEPT ![c] = ClientMakeRequest(tripleWhaleAPI, now)]
    /\ UNCHANGED <<now, config, breakerVars, rq, tripleWhaleCircuitBreaker, wh, hc,
                   tripleWhaleAPI, libVars>>

\* POST /oauth/token answers 200 with a new token
TokenGrants(c, e) ==
    /\ c \in TokenInFlight
    /\ tripleWhaleAPI.granted < MaxTokens
    /\ LET response == [access_token |-> tripleWhaleAPI.granted + 1, expires_in |-> e]
           a == authenticate(tripleWhaleAPI, response, now)
       IN  /\ tripleWhaleAPI' = a
           /\ calls' = [calls EXCEPT ![c] = TokenGranted(a, calls[c], now)]
    /\ UNCHANGED <<now, config, breakerVars, rq, tripleWhaleCircuitBreaker, wh, hc,
                   libVars>>

\* POST /oauth/token fails
TokenRefuses(c) ==
    /\ c \in TokenInFlight
    /\ calls' = [calls EXCEPT ![c] = TokenRefused(calls[c])]
    /\ tripleWhaleAPI' =
           tripleWhaleAuthenticate(tripleWhaleAPI, [ok |-> FALSE], now).instance
    /\ UNCHANGED <<now, config, breakerVars, rq, tripleWhaleCircuitBreaker, wh, hc,
                   libVars>>

\* the dependency answers 2xx
ClientRemoteResolves(c, v) ==
    /\ calls[c].stage = "sending"
    /\ calls' = [calls EXCEPT ![c] = FnResolved([calls[c] EXCEPT !.all401 = FALSE], v)]
    /\ UNCHANGED <<now, config, breakerVars, rq, tripleWhaleCircuitBreaker, wh, hc,
                   tripleWhaleAPI, libVars>>

\* the dependency answers with an error status
ClientRemoteRejects(c, k) ==
    /\ calls[c].stage = "sending"
    /\ calls' = [calls EXCEPT ![c] =
                   ResponseError(tripleWhaleAPI, calls[c],
                                 MkError(k, calls[c].retry.nCalls), now)]
    /\ UNCHANGED <<now, config, breakerVars, rq, tripleWhaleCircuitBreaker, wh, hc,
                   tripleWhaleAPI, libVars>>

\* sleep(jitteredDelay) of the call's retryRequest resolves
ClientRetryWakes(c) ==
    /\ calls[c].retry.pc = "sleeping"
    /\ calls' = [calls EXCEPT ![c] = ClientWake(tripleWhaleAPI, calls[c], now)]
    /\ UNCHANGED <<now, config, breakerVars, rq, tripleWhaleCircuitBreaker, wh, hc,
                   tripleWhaleAPI, libVars>>

\* the clock advances
ClientTick ==
    /\ now < MaxClientTicks * TickMs
    /\ now' = now + TickMs
    /\ UNCHANGED <<config, breakerVars, rq, serverVars>>

ClientEnvs == {env \in Env : env.MAX_RETRY_ATTEMPTS <= 2 /\ ~env.WEBHOOK_VERIFY_SIGNATURE}

InitClient ==
    /\ now = 0
    /\ \E env \in ClientEnvs : config = ConfigOf(env)
    /\ cb = CircuitBreaker([failureThreshold |-> 0, resetTimeout |-> 0])
    /\ pc = [c \in Callers |-> "idle"]
    /\ fnInvoked = 0
    /\ nOk = 0
    /\ nErr = 0
    /\ nBlocked = 0
    /\ probe = NoCaller
    /\ probeAlone = TRUE
    /\ last = [op |-> "init", caller |-> NoCaller, probe |-> FALSE]
    /\ runs = [streak |-> 0, longest |-> 0, serial |-> TRUE]
    /\ rq = RetryIdle
    /\ tripleWhaleCircuitBreaker = CircuitBreaker(TripleWhaleBreakerOptions)
    /\ wh = [w \in Webhooks |-> WebhookIdle]
    /\ hc = [h \in HealthReqs |-> HealthIdle]
    /\ \E id \in BOOLEAN, secret \in BOOLEAN : tripleWhaleAPI = TripleWhaleAPI(id, secret)
    /\ calls = [c \in ClientCalls |-> ClientCallIdle]
    /\ LibIdle

NextClient ==
    \/ \E c \in ClientCalls : MakeRequest(c)
    \/ \E c \in ClientCalls, e \in ExpiresIn : TokenGrants(c, e)
    \/ \E c \in ClientCalls : TokenRefuses(c)
    \/ \E c \in ClientCalls : ClientRemoteResolves(c, "v1")
    \/ \E c \in ClientCalls, k \in ClientErrorKinds : ClientRemoteRejects(c, k)
    \/ \E c \in ClientCalls : ClientRetryWakes(c)
    \/ ClientTick

SpecClient == InitClient /\ [][NextClient]_vars

(***************************************************************************)
(* SpecBatch: one pushBatchMetrics call over batches of every length up to *)
(* MaxBatch                                                                *)
(***************************************************************************)
BatchRest == <<now, config, breakerVars, rq, tripleWhaleCircuitBreaker, wh, hc, clientVars, app,
              rateLimiter>>

\* pushBatchMetrics(batchData) is called with n records
PushBatchMetrics(n) ==
    /\ batch.pc = "idle"
    /\ batch' = pushBatchMetrics([i \in 1..n |-> i])
    /\ UNCHANGED BatchRest

\* the Triple Whale API answers the push of the current chunk
BatchRemoteResolves(v) ==
    /\ batch.pc = "pushing"
    /\ batch.retry.pc = "awaitFn"
    /\ batch' = BatchAfterPush(batch, RetryOnResolve(batch.retry, v))
    /\ UNCHANGED BatchRest

\* the push of the current chunk fails
BatchRemoteRejects(k) ==
    /\ batch.pc = "pushing"
    /\ batch.retry.pc = "awaitFn"
    /\ batch' = BatchAfterPush(batch,
                               RetryOnReject(batch.retry, MkError(k, batch.retry.nCalls)))
    /\ UNCHANGED BatchRest

\* the retry sleep of the current chunk's push is over
BatchRetryWakes ==
    /\ batch.pc = "pushing"
    /\ batch.retry.pc = "sleeping"
    /\ batch' = BatchAfterPush(batch, RetryOnWake(batch.retry))
    /\ UNCHANGED BatchRest

InitBatch == InitServer /\ config.retry.maxAttempts <= 2 /\ ~config.webhook.verifySignature

NextBatch ==
    \/ \E n \in 0..MaxBatch : PushBatchMetrics(n)
    \/ \E v \in Values : BatchRemoteResolves(v)
    \/ \E k \in RemoteErrorKinds : BatchRemoteRejects(k)
    \/ BatchRetryWakes

SpecBatch == InitBatch /\ [][NextBatch]_vars

(***************************************************************************)
(* SpecLib: one application of a function of the webhook handler to every  *)
(* argument of a bounded set                                               *)
(***************************************************************************)
Called(fn, argSet) ==
    {[fn |-> fn, args |-> a, pc |-> "called", result |-> <<>>] : a \in argSet}

VerifyWebhookSignature ==
    /\ app.fn = "verifyWebhookSignature"
    /\ app.pc = "called"
    /\ LET isValid == verifyWebhookSignature(app.args.payload, app.args.signature,
                                             app.args.secret)
       IN  app' = [app EXCEPT
                     !.pc = IF isValid = "throws" THEN "raised" ELSE "returned",
                     !.result = isValid]
    /\ UNCHANGED <<now, config, breakerVars, rq, tripleWhaleCircuitBreaker, wh, hc,
                   clientVars, batch, rateLimiter>>

DeterminePaymentStatus ==
    /\ app.fn = "determinePaymentStatus"
    /\ app.pc = "called"
    /\ app' = [app EXCEPT !.pc = determinePaymentStatus(app.args).pc,
                          !.result = determinePaymentStatus(app.args).result]
    /\ UNCHANGED <<now, config, breakerVars, rq, tripleWhaleCircuitBreaker, wh, hc,
                   clientVars, batch, rateLimiter>>

\* one call of the transformation of an event, at the clock's time
TransformEvent ==
    /\ app.fn = "transform"
    /\ Len(app.result) < 2
    /\ app' = [app EXCEPT
                  !.pc = IF Len(app.result) = 0 THEN "once" ELSE "twice",
                  !.result = Append(@, [at |-> now] @@
                                 Transform(app.args.eventType, app.args.data, now))]
    /\ UNCHANGED <<now, config, breakerVars, rq, tripleWhaleCircuitBreaker, wh, hc,
                   clientVars, batch, rateLimiter>>

\* one call of authenticate() of either API client
Authenticate ==
    /\ app.fn = "authenticate"
    /\ app.pc = "called"
    /\ LET r == IF app.args.client = "tripleWhale"
                  THEN tripleWhaleAuthenticate(app.args.instance, app.args.outcome, now)
                  ELSE shiprocketAuthenticate(app.args.instance, app.args.outcome, now)
       IN  app' = [app EXCEPT !.pc = r.pc, !.result = r.instance]
    /\ UNCHANGED <<now, config, breakerVars, rq, tripleWhaleCircuitBreaker, wh, hc,
                   clientVars, batch, rateLimiter>>

\* the clock advances, at most up to the next midnight (UTC)
LibTick ==
    /\ app.fn = "transform"
    /\ now < 86400000
    /\ now' = now + TickMs
    /\ UNCHANGED <<config, breakerVars, rq, serverVars>>

InitLib ==
    /\ \/ /\ now = 0
          /\ config = ConfigOf(DefaultEnv)
          /\ app \in Called("determinePaymentStatus", OrderData)
       \/ /\ now \in {86400000 - 2 * TickMs, 86400000 - TickMs}
          /\ config = ConfigOf(DefaultEnv)
          /\ app \in Called("transform",
                 UNION { [eventType : {e}, data : EventData(e)] :
                           e \in {"order_created", "order_shipped", "shipment_pickup",
                                  "in_transit", "order_returned", "rto"} })
       \/ /\ now = 0
          /\ \E verify \in BOOLEAN :
                 config = ConfigOf([DefaultEnv EXCEPT !.WEBHOOK_VERIFY_SIGNATURE = verify])
          /\ app \in Called("verifyWebhookSignature",
                             [payload : Payloads, signature : Headers, secret : 0..1])
       \/ /\ now = TickMs
          /\ config = ConfigOf(DefaultEnv)
          /\ LET Outcomes == {[ok |-> FALSE]} \cup
                              {[ok |-> TRUE,
                                response |-> [access_token |-> 2, expires_in |-> e]] :
                                   e \in ExpiresIn}
                 Cached == {[accessToken |-> Null, tokenExpiresAt |-> Null],
                            [accessToken |-> 1, tokenExpiresAt |-> 0],
                            [accessToken |-> 1, tokenExpiresAt |-> 2 * TickMs]}
             IN  app \in Called("authenticate",
                     [client : {"tripleWhale"}, outcome : Outcomes,
                      instance : {[TripleWhaleAPI(id, secret) EXCEPT
                                      !.accessToken = k.accessToken,
                                      !.tokenOf = k.accessToken,
                                      !.tokenExpiresAt = k.tokenExpiresAt,
                                      !.expiryOf = k.accessToken] :
                                    id \in BOOLEAN, secret \in BOOLEAN, k \in Cached}]
                     \cup
                     [client : {"shiprocket"}, outcome : Outcomes,
                      instance : {[token |-> k.accessToken,
                                   tokenExpiresAt |-> k.tokenExpiresAt] : k \in Cached}])
    /\ cb = CircuitBreaker([failureThreshold |-> 0, resetTimeout |-> 0])
    /\ pc = [c \in Callers |-> "idle"]
    /\ fnInvoked = 0
    /\ nOk = 0
    /\ nErr = 0
    /\ nBlocked = 0
    /\ probe = NoCaller
    /\ probeAlone = TRUE
    /\ last = [op |-> "init", caller |-> NoCaller, probe |-> FALSE]
    /\ runs = [streak |-> 0, longest |-> 0, serial |-> TRUE]
    /\ rq = RetryIdle
    /\ tripleWhaleCircuitBreaker = CircuitBreaker(TripleWhaleBreakerOptions)
    /\ wh = [w \in Webhooks |-> WebhookIdle]
    /\ hc = [h \in HealthReqs |-> HealthIdle]
    /\ ClientIdle
    /\ batch = BatchIdle
    /\ rateLimiter = LimiterIdle

NextLib ==
    \/ VerifyWebhookSignature
    \/ DeterminePaymentStatus
    \/ TransformEvent
    \/ Authenticate
    \/ LibTick

SpecLib == InitLib /\ [][NextLib]_vars

(***************************************************************************)
(* SpecLimiter: concurrent callers of one RateLimiter's checkLimit()       *)
(***************************************************************************)
RateLimiterOptions ==
    [ maxRequests : 0..MaxLimiterRequests, windowMs : {0, 2 * TickMs} ]

\* checkLimit() is called
CheckLimit(c) ==
    /\ rateLimiter.callers[c].pc \in {"idle", "admitted"}
    /\ rateLimiter.nCalls < MaxCalls
    /\ rateLimiter' = checkLimit([rateLimiter EXCEPT !.nCalls = @ + 1,
                                                      !.callers[c].naps = 0], c, now)
    /\ UNCHANGED <<now, config, breakerVars, rq, tripleWhaleCircuitBreaker, wh, hc,
                   clientVars, batch, app>>

\* sleep(waitTime) resolves: return this.checkLimit()
LimiterWakes(c) ==
    /\ rateLimiter.callers[c].pc = "sleeping"
    /\ now >= rateLimiter.callers[c].wakeAt
    /\ rateLimiter' = checkLimit(rateLimiter, c, now)
    /\ UNCHANGED <<now, config, breakerVars, rq, tripleWhaleCircuitBreaker, wh, hc,
                   clientVars, batch, app>>

\* the clock advances
LimiterTick ==
    /\ now < MaxTicks * TickMs
    /\ now' = now + TickMs
    /\ UNCHANGED <<config, breakerVars, rq, serverVars>>

InitLimiter ==
    /\ now = 0
    /\ config = ConfigOf(DefaultEnv)
    /\ cb = CircuitBreaker([failureThreshold |-> 0, resetTimeout |-> 0])
    /\ pc = [c \in Callers |-> "idle"]
    /\ fnInvoked = 0
    /\ nOk = 0
    /\ nErr = 0
    /\ nBlocked = 0
    /\ probe = NoCaller
    /\ probeAlone = TRUE
    /\ last = [op |-> "init", caller |-> NoCaller, probe |-> FALSE]
    /\ runs = [streak |-> 0, longest |-> 0, serial |-> TRUE]
    /\ rq = RetryIdle
    /\ tripleWhaleCircuitBreaker = CircuitBreaker(TripleWhaleBreakerOptions)
    /\ wh = [w \in Webhooks |-> WebhookIdle]
    /\ hc = [h \in HealthReqs |-> HealthIdle]
    /\ ClientIdle
    /\ batch = BatchIdle
    /\ app = NoApplication
    /\ \E o \in RateLimiterOptions : rateLimiter = RateLimiter(o)

NextLimiter ==
    \/ \E c \in Callers : CheckLimit(c)
    \/ \E c \in Callers : LimiterWakes(c)
    \/ LimiterTick

SpecLimiter == InitLimiter /\ [][NextLimiter]_vars

(***************************************************************************)
(* SpecRetry: one caller of retryRequest / retryWithConfig                 *)
(***************************************************************************)
\* retryRequest(fn, options) is called
RetryRequest(options) ==
    /\ rq.pc = "idle"
    /\ rq' = RetryEnter(options)
    /\ UNCHANGED <<now, config, breakerVars, serverVars>>

\* retryWithConfig(fn, configType) is called
RetryWithConfig(configType) ==
    /\ rq.pc = "idle"
    /\ rq' = RetryEnter(retryConfigs[configType])
    /\ UNCHANGED <<now, config, breakerVars, serverVars>>

\* fn() resolves
RetryFnResolves(v) ==
    /\ rq.pc = "awaitFn"
    /\ rq' = RetryOnResolve(rq, v)
    /\ UNCHANGED <<now, config, breakerVars, serverVars>>

\* fn() rejects
RetryFnRejects(k) ==
    /\ rq.pc = "awaitFn"
    /\ \E random \in Randoms :
         rq' = RetrySleeps(RetryOnReject(rq, MkError(k, rq.nCalls)), random)
    /\ UNCHANGED <<now, config, breakerVars, serverVars>>

\* sleep(jitteredDelay) resolves
RetryWakes ==
    /\ rq.pc = "sleeping"
    /\ rq' = RetryOnWake(rq)
    /\ UNCHANGED <<now, config, breakerVars, serverVars>>

InitRetry ==
    /\ now = 0
    /\ \E env \in Env : ~env.WEBHOOK_VERIFY_SIGNATURE /\ config = ConfigOf(env)
    /\ cb = CircuitBreaker([failureThreshold |-> 0, resetTimeout |-> 0])
    /\ pc = [c \in Callers |-> "idle"]
    /\ fnInvoked = 0
    /\ nOk = 0
    /\ nErr = 0
    /\ nBlocked = 0
    /\ probe = NoCaller
    /\ probeAlone = TRUE
    /\ last = [op |-> "init", caller |-> NoCaller, probe |-> FALSE]
    /\ runs = [streak |-> 0, longest |-> 0, serial |-> TRUE]
    /\ rq = RetryIdle
    /\ ServerIdle

NextRetry ==
    \/ \E m \in {Undefined} \cup 0..MaxAttemptsArg : RetryRequest([maxAttempts |-> m])
    \/ \E t \in RetryConfigTypes : RetryWithConfig(t)
    \/ \E v \in Values : RetryFnResolves(v)
    \/ \E k \in ErrorKinds : RetryFnRejects(k)
    \/ RetryWakes

SpecRetry == InitRetry /\ [][NextRetry]_vars

\* fn and sleep terminate
FairSpecRetry ==
    /\ SpecRetry
    /\ WF_vars((\E v \in Values : RetryFnResolves(v)) \/ (\E k \in ErrorKinds : RetryFnRejects(k)))
    /\ WF_vars(RetryWakes)

(***************************************************************************)
(* SpecBreaker: callers of cb.execute(fn)                                  *)
(***************************************************************************)
BreakerOptions ==
    [ failureThreshold : 0..MaxThreshold, resetTimeout : {0, 2 * TickMs} ]

InFlight == {c \in Callers : pc[c] = "inFn"}
Calls == nOk + nErr + nBlocked + Cardinality(InFlight)

\* execute(fn) up to the await of fn(): rejected, or fn() invoked
Execute(c) ==
    /\ pc[c] = "idle"
    /\ Calls < MaxCalls
    /\ IF ExecuteBlocked(cb, now)
         THEN /\ nBlocked' = nBlocked + 1
              /\ last' = [op |-> "blocked", caller |-> c, probe |-> FALSE]
              /\ UNCHANGED <<cb, pc, fnInvoked, probe, probeAlone, runs>>
         ELSE /\ cb' = ExecuteEnter(cb, now)
              /\ pc' = [pc EXCEPT ![c] = "inFn"]
              /\ fnInvoked' = fnInvoked + 1
              /\ IF cb.state = "OPEN"
                   THEN /\ probe' = c
                        /\ probeAlone' = (InFlight = {})
                   ELSE /\ probe' = probe
                        /\ probeAlone' = (probeAlone /\ probe = NoCaller)
              /\ last' = [op |-> "invoked", caller |-> c, probe |-> cb.state = "OPEN"]
              /\ runs' = [runs EXCEPT !.serial = @ /\ InFlight = {}]
              /\ UNCHANGED nBlocked
    /\ UNCHANGED <<now, config, nOk, nErr, rq, serverVars>>

\* the awaited fn() resolves: onSuccess(), result returned
FnResolves(c) ==
    /\ pc[c] = "inFn"
    /\ cb' = onSuccess(cb)
    /\ pc' = [pc EXCEPT ![c] = "idle"]
    /\ nOk' = nOk + 1
    /\ probe' = IF probe = c THEN NoCaller ELSE probe
    /\ last' = [op |-> "success", caller |-> c, probe |-> probe = c]
    /\ runs' = [runs EXCEPT !.streak = 0]
    /\ UNCHANGED <<now, config, fnInvoked, nErr, nBlocked, probeAlone, rq, serverVars>>

\* the awaited fn() rejects: onFailure(), error rethrown
FnRejects(c) ==
    /\ pc[c] = "inFn"
    /\ cb' = onFailure(cb, now)
    /\ pc' = [pc EXCEPT ![c] = "idle"]
    /\ nErr' = nErr + 1
    /\ probe' = IF probe = c THEN NoCaller ELSE probe
    /\ last' = [op |-> "failure", caller |-> c, probe |-> probe = c]
    /\ runs' = [runs EXCEPT !.streak = @ + 1,
                            !.longest = IF runs.streak + 1 > @ THEN runs.streak + 1 ELSE @]
    /\ UNCHANGED <<now, config, fnInvoked, nOk, nBlocked, probeAlone, rq, serverVars>>

\* the clock advances
Tick ==
    /\ now < MaxTicks * TickMs
    /\ now' = now + TickMs
    /\ last' = [op |-> "tick", caller |-> NoCaller, probe |-> FALSE]
    /\ UNCHANGED <<config, cb, pc, fnInvoked, nOk, nErr, nBlocked, probe, probeAlone, runs,
                   rq, serverVars>>

InitBreaker ==
    /\ now = 0
    /\ config = ConfigOf(DefaultEnv)
    /\ \E o \in BreakerOptions : cb = CircuitBreaker(o)
    /\ pc = [c \in Callers |-> "idle"]
    /\ fnInvoked = 0
    /\ nOk = 0
    /\ nErr = 0
    /\ nBlocked = 0
    /\ probe = NoCaller
    /\ probeAlone = TRUE
    /\ last = [op |-> "init", caller |-> NoCaller, probe |-> FALSE]
    /\ runs = [streak |-> 0, longest |-> 0, serial |-> TRUE]
    /\ rq = RetryIdle
    /\ ServerIdle

NextBreaker ==
    \/ \E c \in Callers : Execute(c)
    \/ \E c \in Callers : FnResolves(c)
    \/ \E c \in Callers : FnRejects(c)
    \/ Tick

SpecBreaker == InitBreaker /\ [][NextBreaker]_vars

\* callers that arrive one at a time: execute() is entered only when no
\* earlier call is still awaited
NextSerialBreaker ==
    \/ \E c \in Callers : InFlight = {} /\ Execute(c)
    \/ \E c \in Callers : FnResolves(c)
    \/ \E c \in Callers : FnRejects(c)
    \/ Tick

\* time advances, the promise of every invoked fn() settles, and a caller
\* arrives whenever the breaker would admit one (callers that are turned away
\* may arrive too, but nothing forces them to)
FairSpecBreaker ==
    /\ InitBreaker /\ [][NextSerialBreaker]_vars
    /\ WF_vars(Tick)
    /\ WF_vars(\E c \in Callers : InFlight = {} /\ Execute(c) /\ ~ExecuteBlocked(cb, now))
    /\ WF_vars(\E c \in Callers : FnResolves(c) \/ FnRejects(c))

(***************************************************************************)
(* Properties of the circuit breaker (checked under SpecBreaker)           *)
(***************************************************************************)

\* C1: from a fresh breaker, after failureThreshold failed execute() calls
\* with no success in between the state is OPEN and lastFailureTime is set;
\* after fewer failures (and no success) the state is still CLOSED.
C1_OpensAtThreshold ==
    /\ (nOk = 0 /\ nErr < cb.failureThreshold) => cb.state = "CLOSED"
    /\ (nOk = 0 /\ nErr = cb.failureThreshold /\ last.op = "failure")
          => (cb.state = "OPEN" /\ cb.lastFailureTime # Null)

C1_Witness ==
    /\ nOk = 0
    /\ cb.failureThreshold >= 2
    /\ nErr = cb.failureThreshold
    /\ last.op = "failure"
    /\ cb.state = "OPEN"

\* C2: an execute() call made while the breaker is OPEN and
\* now - lastFailureTime <= resetTimeout is rejected: the wrapped function is
\* not invoked and no field of the breaker changes.
C2_OpenRejects ==
    [][ ( /\ cb.state = "OPEN"
          /\ now - Num(cb.lastFailureTime) <= cb.resetTimeout
          /\ Calls' = Calls + 1 )
        => ( /\ nBlocked' = nBlocked + 1
             /\ fnInvoked' = fnInvoked
             /\ pc' = pc
             /\ cb' = cb ) ]_vars

C2_Witness ==
    /\ last.op = "blocked"
    /\ cb.state = "OPEN"
    /\ now - Num(cb.lastFailureTime) = cb.resetTimeout

C4_HalfOpenFailureReopens ==
    (last.op = "failure" /\ last.probe) => cb.state = "OPEN"

\* C5: while the call that moved the breaker OPEN -> HALF_OPEN is in flight,
\* no other execute() invokes its wrapped function.
C5_SingleProbe ==
    ~ (last.op = "invoked" /\ probe # NoCaller /\ last.caller # probe)

(***************************************************************************)
(* Properties of retryRequest (checked under SpecRetry / FairSpecRetry)    *)
(***************************************************************************)
NonRetryableKind(e) ==
    \/ e.status \in (400..499) \ {401, 408, 429}
    \/ e.status = NoStatus /\ e.code \notin NetworkCodes
RetryableKind(e) ==
    \/ e.status >= 500
    \/ e.status \in {401, 408, 429}
    \/ e.code \in NetworkCodes

\* C7: for every maxAttempts >= 1, when fn fails with HTTP 500 on its first
\* maxAttempts - 1 invocations and then succeeds, retryRequest returns that
\* value: it does not throw while every invocation made so far failed with
\* 500 and fewer than maxAttempts invocations were made.
C7_SucceedsOnLastAttempt ==
    /\ (rq.pc = "thrown" /\ rq.maxAttempts >= 1 /\ rq.all500)
          => rq.nCalls >= rq.maxAttempts
    /\ rq.pc = "returned" => rq.result \in Values

\* C8: for maxAttempts >= 1 retryRequest invokes fn at least once and at most
\* maxAttempts times, and it terminates when fn and sleep terminate.
C8_BoundedAttempts ==
    /\ [](rq.pc # "idle" /\ rq.maxAttempts >= 1
            => (1 <= rq.nCalls /\ rq.nCalls <= rq.maxAttempts))
    /\ (rq.pc # "idle") ~> RetryTerminal(rq)

C8_Witness ==
    /\ rq.pc = "thrown"
    /\ rq.maxAttempts >= 2
    /\ rq.nCalls = rq.maxAttempts
    /\ rq.nSleeps = rq.maxAttempts - 1

\* C9: under the default policy a failure with a 4xx status other than 401,
\* 408, 429, or with neither a status nor a network code, ends retryRequest at
\* once with that same error (on the first invocation: one invocation, no
\* sleep); a failure with 5xx, 401, 408, 429 or a network code is retried as
\* long as attempts remain (attempt < maxAttempts).
C9_DefaultPolicy ==
    /\ (rq.lastError # NoError /\ NonRetryableKind(rq.lastError))
          => /\ rq.pc = "thrown"
             /\ rq.thrown = rq.lastError
             /\ rq.nCalls = rq.lastError.id
             /\ rq.nSleeps = rq.nCalls - 1
    /\ ( /\ rq.nCalls >= 1
         /\ rq.lastError.id = rq.nCalls
         /\ RetryableKind(rq.lastError)
         /\ rq.attempt < rq.maxAttempts )
          => rq.pc = "sleeping"

\* C10: when retryRequest gives up, the error raised is the error of the last
\* invocation of fn made, and fn is not invoked after it.
C10_LastErrorRaised ==
    (rq.pc = "thrown" /\ rq.nCalls >= 1)
        => /\ rq.thrown.id = rq.nCalls
           /\ rq.thrown = rq.lastError

C10_Witness ==
    /\ rq.pc = "thrown"
    /\ rq.nCalls >= 2
    /\ rq.nCalls = rq.maxAttempts
    /\ rq.maxAttempts < config.retry.maxAttempts
    /\ RetryableKind(rq.thrown)
    /\ rq.thrown.id = rq.nCalls

(***************************************************************************)
(* Properties of the server (checked under SpecServer)                     *)
(***************************************************************************)

\* C6: every remote call of the Triple Whale client, the push made for a
\* webhook event included, runs inside retryRequest and inside
\* tripleWhaleCircuitBreaker.execute(), so that an OPEN breaker whose
\* resetTimeout has not elapsed lets no webhook delivery reach the API.
C6_EveryCallThroughBreaker ==
    /\ \A q \in RemoteCallInFlight : q \in InsideTripleWhaleBreaker
    /\ ExecuteBlocked(tripleWhaleCircuitBreaker, now)
          => \A w \in Webhooks : wh[w].pc # "pushing"

(***************************************************************************)
(* Claims about the OAuth client (SpecClient)                              *)
(***************************************************************************)
OAuthConfigured == tripleWhaleAPI.clientId /\ tripleWhaleAPI.clientSecret
CallOver(c) == RetryTerminal(calls[c].retry)

\* C11: a makeRequest call of the OAuth client whose every response is 401
\* (token requests succeeding) has, counted over the whole call and all its
\* generic retry attempts, exactly one re-authentication and one replay.
C11_OneReauthOneReplay ==
    \A c \in ClientCalls :
        (/\ OAuthConfigured
         /\ CallOver(c)
         /\ calls[c].nRequests > 0
         /\ calls[c].all401
         /\ ~calls[c].authFailed)
        => calls[c].nReauth = 1 /\ calls[c].nReplays = 1

\* the cached token exists and its recorded expiry has not passed
TokenUsable(a, t) ==
    a.accessToken # Null /\ a.tokenExpiresAt # Null /\ t < a.tokenExpiresAt

C13_SingleTokenRequest == Cardinality(TokenInFlight) <= 1

\* C14: the cached token and its expiry are both null or both written from the
\* same token response, in every state any caller can observe.
C14_TokenNeverTorn ==
    LET a == tripleWhaleAPI
    IN  \/ a.accessToken = Null /\ a.tokenExpiresAt = Null
        \/ /\ a.accessToken # Null
           /\ a.tokenExpiresAt # Null
           /\ a.tokenOf = a.accessToken
           /\ a.expiryOf = a.accessToken

\* two calls have each requested a token and the second response has replaced
\* the first while a call is still in flight
C14_Witness ==
    /\ tripleWhaleAPI.granted >= 2
    /\ \A c \in ClientCalls : calls[c].nTokenRequests >= 1
    /\ \E c \in ClientCalls : calls[c].stage = "sending"

(***************************************************************************)
(* Claims about the webhook route (SpecWebhook)                            *)
(***************************************************************************)
Arrived(w) == wh[w].pc # "idle"
Answered(w) == wh[w].pc = "responded"
Pushed(w) == wh[w].retry.pc # "idle"    \* pushCustomMetrics was called

\* C15: with verification enabled, a request whose signature header is well
\* formed (the HMAC's number of hex digits, with or without the prefix) but
\* differs from the HMAC of the body is answered 401, and neither
\* processWebhookEvent nor pushCustomMetrics is called for it.
C15_MismatchRejected ==
    \A w \in Webhooks :
        (config.webhook.verifySignature /\ Arrived(w)
           /\ wh[w].seen.signature = "mismatch")
        => /\ Answered(w)
           /\ wh[w].response.status = 401
           /\ ~wh[w].processed
           /\ ~Pushed(w)

\* a mismatching signature on a body that would otherwise have been pushed
C15_Witness ==
    \E w \in Webhooks :
        /\ config.webhook.verifySignature
        /\ Answered(w)
        /\ wh[w].seen = [signature |-> "mismatch", valid |-> TRUE, known |-> TRUE,
                         throws |-> FALSE]

\* C16: with verification enabled, a request whose signature header is
\* malformed (after stripping the prefix, not a hex string of the HMAC's
\* length) is answered 401, not 200, and pushCustomMetrics is never called.
C16_MalformedRejected ==
    \A w \in Webhooks :
        (config.webhook.verifySignature /\ Arrived(w)
           /\ wh[w].seen.signature = "malformed")
        => /\ Answered(w)
           /\ wh[w].response.status = 401
           /\ ~Pushed(w)

\* C17: with verification enabled, pushCustomMetrics is called only for
\* requests whose signature header matches the HMAC of the body, and a request
\* without a signature header is rejected without being processed.
C17_OnlyVerifiedPushed ==
    \A w \in Webhooks :
        config.webhook.verifySignature =>
          /\ Pushed(w) => wh[w].seen.signature = "matches"
          /\ (Arrived(w) /\ wh[w].seen.signature = "absent")
               => /\ Answered(w)
                  /\ wh[w].response.status \in {400, 401}
                  /\ ~wh[w].processed

\* C18 as stated: every structurally invalid body is answered 400 and is
\* neither transformed nor pushed.
C18_InvalidAnswered400 ==
    \A w \in Webhooks :
        (Arrived(w) /\ ~wh[w].seen.valid)
        => /\ Answered(w)
           /\ wh[w].response.status = 400
           /\ ~wh[w].transformed
           /\ ~Pushed(w)

\* C18, amended: a structurally invalid body is never processed, transformed
\* or pushed, and it is answered 400 whenever the signature check does not
\* answer the request itself: verification disabled, no signature header, or
\* a signature that matches the HMAC of the body.
C18_InvalidRejected ==
    \A w \in Webhooks :
        (Arrived(w) /\ ~wh[w].seen.valid)
        => /\ Answered(w)
           /\ ~wh[w].processed
           /\ ~wh[w].transformed
           /\ ~Pushed(w)
           /\ (~config.webhook.verifySignature
                 \/ wh[w].seen.signature \in {"absent", "matches"})
                => wh[w].response.status = 400

\* an invalid body under a verified signature is answered 400
C18_Witness ==
    \E w \in Webhooks :
        /\ config.webhook.verifySignature
        /\ Answered(w)
        /\ ~wh[w].seen.valid
        /\ wh[w].seen.signature = "matches"
        /\ wh[w].response.status = 400

\* C19: when processing of a webhook that passed verification and validation
\* fails (retries exhausted, a non-retryable remote error, a failed
\* authentication, an exception of the transformation), the response still
\* has status 200.
C19_FailureAcknowledged ==
    \A w \in Webhooks :
        (Answered(w) /\ wh[w].processed /\ wh[w].result.outcome = "threw")
        => wh[w].response.status = 200

\* a verified delivery whose push failed on every attempt of its retries
C19_Witness ==
    \E w \in Webhooks :
        /\ config.webhook.verifySignature
        /\ Answered(w)
        /\ wh[w].seen.signature = "matches"
        /\ wh[w].result.outcome = "threw"
        /\ wh[w].retry.pc = "thrown"
        /\ wh[w].retry.maxAttempts > 1
        /\ wh[w].retry.attempt = wh[w].retry.maxAttempts

\* C20: for an event_type outside the known vocabulary the processing result
\* is a success with zero metrics generated, and no remote call is made.
C20_UnknownTypeNoOpSuccess ==
    \A w \in Webhooks :
        (Answered(w) /\ wh[w].processed /\ ~wh[w].seen.known)
        => /\ wh[w].result.outcome = "success"
           /\ wh[w].result.metricsGenerated = 0
           /\ ~Pushed(w)

\* the terminal outcome a response stands for
Outcome(w) ==
    IF ~Answered(w) THEN "none"
    ELSE IF wh[w].response.status \in {400, 401} THEN "Rejected"
    ELSE IF wh[w].response.status = 200 /\ wh[w].response.success THEN "Delivered"
    ELSE IF wh[w].response.status = 200 THEN "Failed"
    ELSE "other"
StageRank(stage) ==
    CASE stage = "verify" -> 1 [] stage = "validate" -> 2
      [] stage = "transform" -> 3 [] stage = "deliver" -> 4
InOrder(stages) ==
    \A i, j \in 1..Len(stages) : i < j => StageRank(stages[i]) < StageRank(stages[j])

\* C21: every webhook request gets exactly one HTTP response and with it one
\* outcome of Rejected, Delivered, Failed, in one pass (nothing happens to it
\* after the response); its stages run in the order verify, validate,
\* classify/transform, deliver; it is Delivered only if no metrics were
\* produced or pushCustomMetrics returned, and Failed whenever the delivery
\* call raised; and every request that arrived is answered.
C21_OnePassOneOutcome ==
    /\ [](\A w \in Webhooks :
            /\ wh[w].responses = (IF Answered(w) THEN 1 ELSE 0)
            /\ InOrder(wh[w].stages)
            /\ Answered(w) => Outcome(w) \in {"Rejected", "Delivered", "Failed"}
            /\ Outcome(w) = "Delivered"
                 => wh[w].metrics = 0 \/ wh[w].retry.pc = "returned"
            /\ (Answered(w) /\ wh[w].retry.pc = "thrown") => Outcome(w) = "Failed")
    /\ [][\A w \in Webhooks : Answered(w) => wh'[w] = wh[w]]_vars
    /\ \A w \in Webhooks : Arrived(w) ~> Answered(w)

\* a signed request went through all four stages and was delivered on a retry
C21_Witness ==
    \E w \in Webhooks :
        /\ Outcome(w) = "Delivered"
        /\ wh[w].stages = <<"verify", "validate", "transform", "deliver">>
        /\ wh[w].retry.attempt > 1

(***************************************************************************)
(* Claims about pushBatchMetrics (SpecBatch)                               *)
(***************************************************************************)
RECURSIVE Flatten(_)
Flatten(ss) == IF ss = <<>> THEN <<>> ELSE Head(ss) \o Flatten(Tail(ss))

\* C22: pushBatchMetrics splits the records into consecutive chunks of at most
\* 100 whose concatenation in order is the input; the chunks are pushed one
\* after another in that order; when the push of a chunk raises, no later
\* chunk is pushed and that error is raised to the caller.
C22_ChunkedAbortOnFailure ==
    batch.pc # "idle" =>
      /\ Flatten(batch.batches) = batch.batchData
      /\ \A c \in 1..Len(batch.batches) :
           Len(batch.batches[c]) >= 1 /\ Len(batch.batches[c]) <= 100
      /\ batch.sent = SubSeq(batch.batches, 1, Len(batch.sent))
      /\ Len(batch.sent) = Len(batch.results) + (IF batch.pc = "returned" THEN 0 ELSE 1)
      /\ batch.pc = "returned" => batch.sent = batch.batches
      /\ batch.failures > 0 =>
           /\ batch.pc = "thrown"
           /\ batch.failures = 1
           /\ batch.thrown = batch.retry.thrown
           /\ batch.thrown.id > 0

\* the push of the second of three chunks raised: the third was never sent
C22_Witness ==
    /\ batch.pc = "thrown"
    /\ Len(batch.batches) = 3
    /\ Len(batch.sent) = 2
    /\ Len(batch.results) = 1

C24_OneConsistentStatus ==
    app.fn = "determinePaymentStatus" /\ app.pc # "called" =>
        /\ app.pc = "returned"
        /\ app.result.status \in {"COD", "Fully_Paid", "Partially_Paid", "Unpaid",
                                  "Free_Order", "Unknown"}
        /\ app.result.isCOD <=> app.result.status = "COD"
        /\ app.result.isPartiallyPaid <=> app.result.status = "Partially_Paid"
        /\ app.result.isPrepaid <=> app.result.status = "Fully_Paid"
        /\ app.result.isFullyPaid <=> app.result.status \in {"Fully_Paid", "Free_Order"}
        /\ ~(app.result.isCOD /\ app.result.isFullyPaid)

\* C25: totalAmount and paidAmount of the result are numbers, and are 0 when
\* the field they are read from is absent or is a string that is not a number.
C25_AmountsZeroWhenUnparsable ==
    LET Unusable(v) == v.t = "undefined" \/ (v.t = "string" /\ parseFloat(v).t = "NaN")
        Zero == Js("number", 0, <<>>)
    IN  app.fn = "determinePaymentStatus" /\ app.pc = "returned" =>
            /\ app.result.totalAmount.t = "number"
            /\ app.result.paidAmount.t = "number"
            /\ Unusable(app.args.total_amount) => app.result.totalAmount = Zero
            /\ Unusable(app.args.amount_paid) /\ Unusable(app.args.paid_amount)
                   => app.result.paidAmount = Zero

\* C26: determinePaymentStatus never raises, whatever the data mapping holds.
C26_PaymentStatusNeverRaises ==
    app.fn = "determinePaymentStatus" => app.pc # "raised"

\* C30: for non-negative numeric amounts the status is picked in the order
\* COD, Fully_Paid, Partially_Paid, Unpaid, Free_Order: a COD indicator gives
\* COD with outstanding = COD amount if positive, else the total, even for a
\* paid-up order; then paid >= total > 0 gives Fully_Paid (outstanding 0),
\* 0 < paid < total Partially_Paid (total - paid), paid = 0 < total Unpaid
\* (total), total = 0 Free_Order; Unknown is never returned.
C30_FirstMatchOrder ==
    LET d == app.args
        r == app.result
        Amount(v) == IF v.t = "undefined" THEN 0 ELSE parseFloat(v).n
        NonNegative(v) ==
            v.t = "undefined" \/ (parseFloat(v).t = "number" /\ parseFloat(v).n >= 0)
        First(a, b) == IF Amount(a) # 0 THEN Amount(a) ELSE Amount(b)
        total == Amount(d.total_amount)
        paid  == First(d.amount_paid, d.paid_amount)
        cod   == First(d.cod_amount, d.cash_on_delivery_amount)
        indicator ==
            \/ d.payment_method.s \in {<<"C", "O", "D">>, <<"C", "a", "s", "h">>}
            \/ cod > 0
            \/ d.is_cod = Js("boolean", 1, <<>>)
            \/ d.payment_mode = Js("string", 0, <<"C", "O", "D">>)
        Is(status, outstanding) ==
            r.status = status /\ r.outstandingAmount = Js("number", outstanding, <<>>)
    IN  /\ app.fn = "determinePaymentStatus"
        /\ app.pc = "returned"
        /\ \A f \in {"total_amount", "amount_paid", "paid_amount", "cod_amount",
                     "cash_on_delivery_amount"} : NonNegative(d[f])
        => /\ r.status # "Unknown"
           /\ indicator => Is("COD", IF cod > 0 THEN cod ELSE total)
           /\ ~indicator /\ paid >= total /\ total > 0 => Is("Fully_Paid", 0)
           /\ ~indicator /\ 0 < paid /\ paid < total => Is("Partially_Paid", total - paid)
           /\ ~indicator /\ paid = 0 /\ 0 < total => Is("Unpaid", total)
           /\ ~indicator /\ total = 0 => r.status = "Free_Order"

\* a paid-up order with a COD indicator, classified
C30_Witness ==
    /\ app.fn = "determinePaymentStatus"
    /\ app.pc = "returned"
    /\ app.result.status = "COD"
    /\ app.result.totalAmount.t = "number"
    /\ app.result.paidAmount.t = "number"
    /\ app.result.totalAmount.n > 0
    /\ app.result.paidAmount.n >= app.result.totalAmount.n

C28_ClosedWhileRunsShort ==
    /\ [](runs.serial /\ runs.longest < cb.failureThreshold => cb.state = "CLOSED")
    /\ [](runs.serial /\ cb.state = "CLOSED" => cb.failureCount = runs.streak)
    /\ [][nOk' = nOk + 1 /\ cb.state = "CLOSED" =>
            cb'.failureCount = 0 /\ cb'.state = "CLOSED"]_vars

\* calls one at a time: as many failures as the threshold, a success among them
C28_Witness ==
    /\ runs.serial
    /\ runs.longest < cb.failureThreshold
    /\ nErr >= cb.failureThreshold
    /\ nOk >= 1
    /\ InFlight = {}

(***************************************************************************)
(* Claims about verifyWebhookSignature (SpecLib)                           *)
(***************************************************************************)
\* C29: with verification enabled, the header 'sha256=' + hex(HMAC(S, body))
\* verifies true against S, false against another secret, and false once one
\* bit of its signature is flipped; with verification disabled the result is
\* true for every input.
C29_SignatureVerifies ==
    LET a == app.args
        Header(secret) == <<"sha256=">> \o HmacHex(secret, a.payload)
        Flipped(h, i) == [h EXCEPT ![i] = IF @ = "0" THEN "1" ELSE "0"]
    IN  app.fn = "verifyWebhookSignature" /\ app.pc # "called" =>
            /\ app.pc = "returned" \/ config.webhook.verifySignature
            /\ ~config.webhook.verifySignature => app.result = "true"
            /\ config.webhook.verifySignature =>
                 /\ a.signature = Header(a.secret) => app.result = "true"
                 /\ \A other \in (0..1) \ {a.secret} :
                        a.signature = Header(other) => app.result = "false"
                 /\ \A i \in 2..Len(Header(a.secret)) :
                        a.signature = Flipped(Header(a.secret), i) => app.result = "false"

\* a header signed with the other secret, checked with verification enabled
C29_Witness ==
    /\ app.fn = "verifyWebhookSignature"
    /\ app.pc = "returned"
    /\ config.webhook.verifySignature
    /\ app.args.signature = <<"sha256=">> \o HmacHex(1 - app.args.secret, app.args.payload)
    /\ app.result = "false"

C32_ProductsOnlyIfNonEmpty ==
    app.fn = "transform" /\ app.args.eventType = "order_created" =>
        \A k \in 1..Len(app.result) :
            \A i \in 1..Len(app.result[k].result) :
                app.result[k].result[i].metric_name
                        \in {"shiprocket_products_ordered", "shiprocket_items_ordered"}
                    => /\ app.args.data.products.t = "array"
                       /\ Len(app.args.data.products.s) > 0

\* C33: an order_returned / rto event whose event_type is 'rto' or whose
\* data.return_type is 'rto' is counted as shiprocket_rto_orders and yields
\* the failed-COD metrics iff isCOD; any other return is counted as
\* shiprocket_returns and yields none of them.
C33_RtoCounted ==
    app.fn = "transform" /\ app.args.eventType \in {"order_returned", "rto"} =>
        \A k \in 1..Len(app.result) :
            LET metrics == app.result[k].result
                Has(name) == \E i \in 1..Len(metrics) : metrics[i].metric_name = name
                paymentStatus == determinePaymentStatus(app.args.data).result
                isRTO == \/ app.args.eventType = "rto"
                         \/ app.args.data.return_type = Js("string", 0, <<"rto">>)
            IN  app.result[k].pc = "returned" =>
                    /\ Has("shiprocket_rto_orders") <=> isRTO
                    /\ Has("shiprocket_returns") <=> ~isRTO
                    /\ Has("shiprocket_cod_collection_failed")
                           <=> isRTO /\ paymentStatus.isCOD
                    /\ Has("shiprocket_payment_status_updated")
                           <=> isRTO /\ paymentStatus.isCOD

(***************************************************************************)
(* Claims about the breaker's transitions (SpecBreaker)                    *)
(***************************************************************************)
\* C34: whatever the interleaving of concurrent execute() calls, the state
\* changes only CLOSED -> OPEN, OPEN -> HALF_OPEN, HALF_OPEN -> CLOSED or
\* HALF_OPEN -> OPEN.
C34_TransitionsOnly ==
    [][cb'.state # cb.state =>
          <<cb.state, cb'.state>> \in { <<"CLOSED", "OPEN">>, <<"OPEN", "HALF_OPEN">>,
                                        <<"HALF_OPEN", "CLOSED">>, <<"HALF_OPEN", "OPEN">> }]_vars

\* a success that arrives while the breaker is OPEN, from a call admitted
\* before it opened
C34_Witness ==
    /\ last.op = "success"
    /\ ~last.probe
    /\ ~runs.serial
    /\ cb.state = "OPEN"

C36_HealthFailuresRegistered ==
    LET failed == {h \in HealthReqs : /\ hc[h].retry.pc = "thrown"
                                      /\ hc[h].service = "unhealthy"}
        b == tripleWhaleCircuitBreaker
    IN  (\A h \in HealthReqs : hc[h].service # "healthy") =>
            /\ b.state = "OPEN" \/ b.failureCount >= Cardinality(failed)
            /\ Cardinality(failed) >= b.failureThreshold => b.state = "OPEN"

\* C37: while the breaker is OPEN and resetTimeout has not elapsed since the
\* last recorded failure, no step changes failureCount, lastFailureTime or the
\* state, also not the completion of a call admitted before the breaker opened.
C37_OpenPeriodFrozen ==
    [][ (cb.state = "OPEN" /\ ExecuteBlocked(cb, now)) =>
            /\ cb'.failureCount = cb.failureCount
            /\ cb'.lastFailureTime = cb.lastFailureTime
            /\ cb'.state = cb.state ]_vars

C39_WindowHoldsAtMostMax ==
    LET l == rateLimiter
        young == SelectSeq(l.requests, LAMBDA time : now - time < l.windowMs)
    IN  /\ Len(young) <= l.maxRequests
        /\ \A i \in DOMAIN l.log :
               Cardinality({j \in DOMAIN l.log :
                               l.log[j] <= l.log[i] /\ l.log[i] - l.log[j] < l.windowMs})
                   <= l.maxRequests
\* two callers slept until the same time; one was admitted on waking, the
\* other had to sleep again and was admitted a window later
C39_Witness ==
    \E c, d \in Callers :
        /\ c # d
        /\ rateLimiter.callers[c].pc = "admitted"
        /\ rateLimiter.callers[c].naps = 1
        /\ rateLimiter.callers[d].pc = "admitted"
        /\ rateLimiter.callers[d].naps = 2
        /\ Len(rateLimiter.log) = 3

(***************************************************************************)
(* Claims about authenticate() (SpecLib)                                   *)
(***************************************************************************)
\* C40: when its authentication request fails, authenticate() raises and the
\* cached token and its expiry are exactly what they were before the call,
\* in TripleWhaleAPI and in ShiprocketAPI.
C40_FailedAuthLeavesToken ==
    (/\ app.fn = "authenticate"
     /\ app.pc # "called"
     /\ ~app.args.outcome.ok
     /\ app.args.client = "shiprocket" \/ ~authenticateSkipped(app.args.instance)) =>
        /\ app.pc = "raised"
        /\ app.result = app.args.instance
C40_Witness ==
    /\ app.fn = "authenticate"
    /\ app.pc = "raised"
    /\ app.args.client = "tripleWhale"
    /\ app.result.accessToken = 1
    /\ app.result.tokenExpiresAt = 2 * TickMs

====
